---- MODULE Spec2Model ----
(***************************************************************************)
(* Model of the focus-change notifier kernel of claude-code-notifier:      *)
(* AppActivator (app_activator.py), AppDetector (app_detector.py),         *)
(* HammerspoonFocuser (hammerspoon_focuser.py) and ClaudeNotifier with its *)
(* CLI entry point (claude_notifier.py), and of the window detectives      *)
(* (window_detective.py, window_detective_reliable.py) and the             *)
(* WindowContextDetector (window_context_detector.py).                     *)
(*                                                                         *)
(* Python strings are sequences of one-character strings.  Every           *)
(* subprocess.run is an entry of the call log `calls`, carrying the        *)
(* command, its timeout and the outcome the OS gave.  An operation is one  *)
(* action: it draws the outcomes of its outbound calls, runs the code to   *)
(* completion and leaves its input, its call log and its result in the     *)
(* state.                                                                  *)
(***************************************************************************)
EXTENDS Integers, Sequences, FiniteSets, TLC

VARIABLES
    op,                     \* the operation that ran last
    invoked,                \* <<the operation, its input>>
    calls,                  \* the OS commands it issued, in order, with outcomes
    returned,               \* <<the operation, "return" or "raise", the value or exception>>
    originating_context,    \* ClaudeNotifier.originating_context
    originating_app_info,   \* ClaudeNotifier.originating_app_info (NoAttr: never assigned)
    hs_cli_path,            \* HammerspoonFocuser.hs_cli_path (None: CLI not found)
    cwd,                    \* the process's working directory (None: unreadable)
    exit_code,              \* status passed to sys.exit by main (-1: main has not run)
    focused,                \* the windows the bridge called focus() on, by position
                            \* in the cross-space list
    current_app_info        \* AppDetector._current_app_info, as an Optional

vars == <<op, invoked, calls, returned, originating_context, originating_app_info,
          hs_cli_path, cwd, exit_code, focused, current_app_info>>

\* what outlives an operation
objects == <<originating_context, originating_app_info, hs_cli_path, cwd, current_app_info>>

\* the input of the operation that ran last
arg == invoked[2]
\* how it ended: Return(value) or Raise(exception)
ret == [kind |-> returned[2], val |-> returned[3]]

----------------------------------------------------------------------------
(* Bounds *)

MaxNameLen == 2
\* the most iterations of a polling loop that start before its timeout
MaxPolls == 2

----------------------------------------------------------------------------
(* Strings *)

None == <<"None">>
NoAttr == <<"NoAttr">>

s_empty == <<>>
s_unknown == <<"u", "n", "k", "n", "o", "w", "n">>
s_Code == <<"C", "o", "d", "e">>
s_Visual_Studio_Code == <<"V", "i", "s", "u", "a", "l", " ", "S", "t", "u", "d", "i", "o", " ", "C", "o", "d", "e">>
s_VSCode == <<"V", "S", "C", "o", "d", "e">>
s_Term == <<"T", "e", "r", "m">>
s_com_a == <<"c", "o", "m", ".", "a">>
s_Claude_Code == <<"C", "l", "a", "u", "d", "e", " ", "C", "o", "d", "e">>
s_Task_completed == <<"T", "a", "s", "k", " ", "c", "o", "m", "p", "l", "e", "t", "e", "d">>
s_Notification == <<"N", "o", "t", "i", "f", "i", "c", "a", "t", "i", "o", "n">>
s_in == <<" ", "i", "n", " ">>

AllStr(alphabet, n) == UNION {[1..k -> alphabet] : k \in 0..n}

\* Python truthiness of an Optional[str]: `not x`
Falsy(x) == x = None \/ x = s_empty

\* `c in s` for a one-character c
HasChar(s, c) == \E i \in 1..Len(s) : s[i] = c

\* s.replace(c, "") for a one-character c
RemoveChar(s, c) == SelectSeq(s, LAMBDA x : x /= c)

\* a is obtained from b by deleting characters of b
RECURSIVE IsSubseq(_, _)
IsSubseq(a, b) ==
    IF a = <<>> THEN TRUE
    ELSE IF b = <<>> THEN FALSE
    ELSE IF Head(a) = Head(b) THEN IsSubseq(Tail(a), Tail(b))
    ELSE IsSubseq(a, Tail(b))


\* str.strip() / lstrip / rstrip over a set of characters
Whitespace == {" ", "\n", "\t"}

RECURSIVE LStripSet(_, _)
LStripSet(s, cs) ==
    IF s /= <<>> /\ Head(s) \in cs THEN LStripSet(Tail(s), cs) ELSE s

RECURSIVE RStripSet(_, _)
RStripSet(s, cs) ==
    IF s /= <<>> /\ s[Len(s)] \in cs THEN RStripSet(SubSeq(s, 1, Len(s) - 1), cs) ELSE s

StripSet(s, cs) == RStripSet(LStripSet(s, cs), cs)
Strip(s) == StripSet(s, Whitespace)

\* index of the first c in s, 0 if there is none
RECURSIVE FindFrom(_, _, _)
FindFrom(s, c, i) ==
    IF i > Len(s) THEN 0 ELSE IF s[i] = c THEN i ELSE FindFrom(s, c, i + 1)

Find(s, c) == FindFrom(s, c, 1)

\* s.split(c): the pieces between occurrences of c, at least one piece
RECURSIVE Split(_, _)
Split(s, c) ==
    LET i == Find(s, c)
    IN  IF i = 0 THEN <<s>>
        ELSE <<SubSeq(s, 1, i - 1)>> \o Split(SubSeq(s, i + 1, Len(s)), c)

\* `sub in s` for strings
Contains(s, sub) ==
    \E i \in 1..(Len(s) - Len(sub) + 1) : SubSeq(s, i, i + Len(sub) - 1) = sub
\* s.startswith(prefix)
StartsWith(s, prefix) == Len(s) >= Len(prefix) /\ SubSeq(s, 1, Len(prefix)) = prefix

\* s.split(c, n): at most n splits
RECURSIVE SplitN(_, _, _)
SplitN(s, c, n) ==
    LET i == Find(s, c)
    IN  IF n = 0 \/ i = 0 THEN <<s>>
        ELSE <<SubSeq(s, 1, i - 1)>> \o SplitN(SubSeq(s, i + 1, Len(s)), c, n - 1)

\* str(n) and Lua's number-to-string coercion, for 0 <= n <= 9
ToStr(n) == <<<<"0", "1", "2", "3", "4", "5", "6", "7", "8", "9">>[n + 1]>>

\* str(n) for any integer
RECURSIVE Str(_)
Str(n) ==
    IF n < 0 THEN <<"-">> \o Str(0 - n)
    ELSE IF n < 10 THEN ToStr(n)
    ELSE Str(n \div 10) \o ToStr(n % 10)

\* the lines a script prints, each ended by a newline
RECURSIVE PrintLines(_)
PrintLines(ls) == IF ls = <<>> THEN <<>> ELSE Head(ls) \o <<"\n">> \o PrintLines(Tail(ls))

Digits == {"0", "1", "2", "3", "4", "5", "6", "7", "8", "9"}
DigitVal(c) == CHOOSE n \in 0..9 : <<"0", "1", "2", "3", "4", "5", "6", "7", "8", "9">>[n + 1] = c

RECURSIVE DecimalVal(_)
DecimalVal(ds) ==
    IF ds = <<>> THEN 0 ELSE 10 * DecimalVal(SubSeq(ds, 1, Len(ds) - 1)) + DigitVal(ds[Len(ds)])

\* int(v) accepts surrounding whitespace, an optional sign and decimal digits
IntBody(v) == LET t == Strip(v)
              IN  IF t /= <<>> /\ Head(t) \in {"+", "-"} THEN Tail(t) ELSE t
IsInt(v) == IntBody(v) /= <<>> /\ \A i \in 1..Len(IntBody(v)) : IntBody(v)[i] \in Digits
IntVal(v) == IF Head(Strip(v)) = "-" THEN 0 - DecimalVal(IntBody(v)) ELSE DecimalVal(IntBody(v))

----------------------------------------------------------------------------
(* subprocess.run outcomes and the call log *)

Exit(rc, out) == [kind |-> "exit", rc |-> rc, out |-> out]
TimeoutExpired == [kind |-> "timeout", rc |-> -1, out |-> <<>>]
OSError == [kind |-> "oserror", rc |-> -1, out |-> <<>>]

Raised(r) == r.kind /= "exit"
ExitedZero(r) == r.kind = "exit" /\ r.rc = 0

\* timeout 0 stands for a call made without a timeout argument
Call(tool, script, args, timeout, res) ==
    [tool |-> tool, script |-> script, args |-> args, timeout |-> timeout, res |-> res]

Return(v) == [kind |-> "return", val |-> v]
Raise(e) == [kind |-> "raise", val |-> e]
\* no operation has run
NoResult == [kind |-> "none", val |-> None]

Done(r, cs) == [res |-> r, calls |-> cs]

\* a value of type Optional[dict]: no element for None, else the record
Nothing == <<>>
Some(v) == <<v>>

\* F applied to the value of v, with v evaluated once
Bind(v, F(_)) == CHOOSE y \in {F(x) : x \in {v}} : TRUE

\* Outcomes of a command whose output is not read
PlainOutcomes == {Exit(0, <<>>), Exit(1, <<>>), TimeoutExpired, OSError}
\* The same for a call made without a timeout: it cannot time out
NoTimeoutOutcomes == {Exit(0, <<>>), Exit(1, <<>>), OSError}

----------------------------------------------------------------------------
(* AppActivator *)

\* a guard that rejects only the empty id, not the "unknown" sentinel
activate_app_by_bundle_id_NoSentinel(bundle_id, r) ==
    IF Falsy(bundle_id)
    THEN Done(Return(FALSE), <<>>)
    ELSE LET c == Call("osascript", "tell application id to activate", <<bundle_id>>, 5, r)
         IN  IF Raised(r) THEN Done(Return(FALSE), <<c>>)
             ELSE Done(Return(r.rc = 0), <<c>>)

activate_app_by_bundle_id(bundle_id, r) ==
    IF Falsy(bundle_id) \/ bundle_id = s_unknown
    THEN Done(Return(FALSE), <<>>)
    ELSE LET c == Call("osascript", "tell application id to activate", <<bundle_id>>, 5, r)
         IN  IF Raised(r) THEN Done(Return(FALSE), <<c>>)
             ELSE Done(Return(r.rc = 0), <<c>>)

NameVariations(app_name) ==
    (IF app_name = s_Code THEN <<s_Visual_Studio_Code, s_VSCode>> ELSE <<>>)
    \o (IF HasChar(app_name, " ") THEN <<RemoveChar(app_name, " ")>> ELSE <<>>)

\* the loop of _try_name_variations from position i on; rv[i] is the outcome
\* the OS gives to the i-th variation if it is attempted
RECURSIVE TryVariationsFrom(_, _, _)
TryVariationsFrom(variations, rv, i) ==
    IF i > Len(variations) THEN Done(Return(FALSE), <<>>)
    ELSE LET c == Call("osascript", "tell application to activate", <<variations[i]>>, 3, rv[i])
         IN  IF ExitedZero(rv[i]) THEN Done(Return(TRUE), <<c>>)
             ELSE LET rest == TryVariationsFrom(variations, rv, i + 1)
                  IN  Done(rest.res, <<c>> \o rest.calls)

\* a loop that gives up at the first variation that raises
RECURSIVE TryVariationsFrom_StopOnRaise(_, _, _)
TryVariationsFrom_StopOnRaise(variations, rv, i) ==
    IF i > Len(variations) THEN Done(Return(FALSE), <<>>)
    ELSE LET c == Call("osascript", "tell application to activate", <<variations[i]>>, 3, rv[i])
         IN  IF ExitedZero(rv[i]) THEN Done(Return(TRUE), <<c>>)
             ELSE IF Raised(rv[i]) THEN Done(Return(FALSE), <<c>>)
             ELSE LET rest == TryVariationsFrom_StopOnRaise(variations, rv, i + 1)
                  IN  Done(rest.res, <<c>> \o rest.calls)

try_name_variations_StopOnRaise(app_name, rv) ==
    TryVariationsFrom_StopOnRaise(NameVariations(app_name), rv, 1)

try_name_variations(app_name, rv) ==
    TryVariationsFrom(NameVariations(app_name), rv, 1)

activate_app_by_name(app_name, r, rv) ==
    IF Falsy(app_name) \/ app_name = s_unknown
    THEN Done(Return(FALSE), <<>>)
    ELSE LET c == Call("osascript", "tell application to activate", <<app_name>>, 5, r)
         IN  IF Raised(r) THEN Done(Return(FALSE), <<c>>)
             ELSE IF r.rc = 0 THEN Done(Return(TRUE), <<c>>)
             ELSE LET v == try_name_variations(app_name, rv)
                  IN  Done(v.res, <<c>> \o v.calls)

send_basic_notification(title, message, rb) ==
    LET c == Call("osascript", "display notification", <<title, message>>, 5, rb)
    IN  IF Raised(rb) THEN Done(Return(FALSE), <<c>>)
        ELSE Done(Return(rb.rc = 0), <<c>>)

\* a notifier that reports failure when terminal-notifier fails, without
\* falling back to the built-in notification
send_notification_NoFallback(title, message, bundle_id, rw, rt, rb) ==
    LET w == Call("which", "terminal-notifier", <<>>, 0, rw)
        basic == send_basic_notification(title, message, rb)
        activate == IF ~Falsy(bundle_id) /\ bundle_id /= s_unknown
                    THEN <<bundle_id>> ELSE <<>>
        t == Call("terminal-notifier", "-title -message -sound Hero",
                  <<title, message>> \o activate, 5, rt)
    IN  IF Raised(rw) \/ rw.rc /= 0
        THEN Done(basic.res, <<w>> \o basic.calls)
        ELSE Done(Return(ExitedZero(rt)), <<w, t>>)

\* a notifier that issues the built-in notification as well after
\* terminal-notifier has succeeded
send_notification_AlwaysBasic(title, message, bundle_id, rw, rt, rb) ==
    LET w == Call("which", "terminal-notifier", <<>>, 0, rw)
        basic == send_basic_notification(title, message, rb)
        activate == IF ~Falsy(bundle_id) /\ bundle_id /= s_unknown
                    THEN <<bundle_id>> ELSE <<>>
        t == Call("terminal-notifier", "-title -message -sound Hero",
                  <<title, message>> \o activate, 5, rt)
    IN  IF Raised(rw) \/ rw.rc /= 0
        THEN Done(basic.res, <<w>> \o basic.calls)
        ELSE IF ExitedZero(rt) THEN Done(Return(TRUE), <<w, t>> \o basic.calls)
        ELSE Done(basic.res, <<w, t>> \o basic.calls)

\* rw: outcome of `which terminal-notifier`; rt: of terminal-notifier;
\* rb: of the built-in osascript notification
send_notification(title, message, bundle_id, rw, rt, rb) ==
    LET w == Call("which", "terminal-notifier", <<>>, 0, rw)
        basic == send_basic_notification(title, message, rb)
        activate == IF ~Falsy(bundle_id) /\ bundle_id /= s_unknown
                    THEN <<bundle_id>> ELSE <<>>
        t == Call("terminal-notifier", "-title -message -sound Hero",
                  <<title, message>> \o activate, 5, rt)
    IN  IF Raised(rw) \/ rw.rc /= 0
        THEN Done(basic.res, <<w>> \o basic.calls)
        ELSE IF ExitedZero(rt) THEN Done(Return(TRUE), <<w, t>>)
        ELSE Done(basic.res, <<w, t>> \o basic.calls)

\* app_info.get(key): None when the key is absent
DictGet(d, key, default) == IF key \in DOMAIN d THEN d[key] ELSE default

activate_with_notification(app_info, title, message, rw, rt, rb) ==
    send_notification(title, message, DictGet(app_info, "bundle_id", None), rw, rt, rb)

----------------------------------------------------------------------------
(* AppDetector *)

k_pid == <<"p", "i", "d">>
k_CFBundleIdentifier == <<"C", "F", "B", "u", "n", "d", "l", "e", "I", "d", "e", "n", "t", "i", "f", "i", "e", "r">>
k_LSDisplayName == <<"L", "S", "D", "i", "s", "p", "l", "a", "y", "N", "a", "m", "e">>

\* one line of _parse_lsappinfo_output applied to the dict built so far
parse_line(info, line) ==
    LET i == Find(line, "=")
        key == StripSet(Strip(SubSeq(line, 1, i - 1)), {"\""})
        value == StripSet(Strip(SubSeq(line, i + 1, Len(line))), {"\""})
    IN  IF i = 0 THEN info
        ELSE IF key = k_pid
             THEN (IF IsInt(value) THEN ("pid" :> IntVal(value)) @@ info ELSE info)
        ELSE IF key = k_CFBundleIdentifier THEN ("bundle_id" :> value) @@ info
        ELSE IF key = k_LSDisplayName THEN ("name" :> value) @@ info
        ELSE info

EmptyDict == [k \in {} |-> <<>>]

RECURSIVE ParseLinesFrom(_, _, _)
ParseLinesFrom(lines, i, info) ==
    IF i > Len(lines) THEN info
    ELSE ParseLinesFrom(lines, i + 1, parse_line(info, lines[i]))

parse_lsappinfo_output(output) ==
    ParseLinesFrom(Split(Strip(output), "\n"), 1, EmptyDict)

\* returns the title, or None
get_current_window_title(rt) ==
    LET c == Call("osascript", "name of front window of frontApp", <<>>, 3, rt)
    IN  IF ExitedZero(rt) THEN Done(Return(Strip(rt.out)), <<c>>)
        ELSE Done(Return(None), <<c>>)

UltimateFallback ==
    [name |-> s_unknown, bundle_id |-> s_unknown, pid |-> 0, method |-> "ultimate_fallback"]

\* a fallback without its try/except: a timeout or a missing osascript escapes
get_fallback_app_info_NoCatch(rfb) ==
    LET c == Call("osascript", "name of frontApp", <<>>, 3, rfb)
    IN  IF Raised(rfb) THEN Done(Raise(rfb.kind), <<c>>)
        ELSE IF rfb.rc = 0
        THEN Done(Return([name |-> Strip(rfb.out), bundle_id |-> s_unknown,
                          pid |-> 0, method |-> "fallback"]), <<c>>)
        ELSE Done(Return(UltimateFallback), <<c>>)

\* a fallback that does not look at the exit status
get_fallback_app_info_IgnoreRc(rfb) ==
    LET c == Call("osascript", "name of frontApp", <<>>, 3, rfb)
    IN  IF Raised(rfb) THEN Done(Return(UltimateFallback), <<c>>)
        ELSE Done(Return([name |-> Strip(rfb.out), bundle_id |-> s_unknown,
                          pid |-> 0, method |-> "fallback"]), <<c>>)

get_fallback_app_info(rfb) ==
    LET c == Call("osascript", "name of frontApp", <<>>, 3, rfb)
    IN  IF ExitedZero(rfb)
        THEN Done(Return([name |-> Strip(rfb.out), bundle_id |-> s_unknown,
                          pid |-> 0, method |-> "fallback"]), <<c>>)
        ELSE Done(Return(UltimateFallback), <<c>>)

\* a reader that parses the info output without looking at its exit status
get_current_app_info_IgnoreInfoRc(rf, ri, rt, rfb) ==
    LET c1 == Call("lsappinfo", "front", <<>>, 2, rf)
        asn_line == Strip(rf.out)
        asn == RStripSet(asn_line, {":"})
        c2 == Call("lsappinfo", "info -only pid,bundleid,name", <<asn>>, 2, ri)
        fb == get_fallback_app_info(rfb)
        parsed == parse_lsappinfo_output(ri.out)
        wt == get_current_window_title(rt)
        info == IF wt.res.kind = "return" /\ ~Falsy(wt.res.val)
                THEN ("window_title" :> wt.res.val) @@ parsed ELSE parsed
    IN  IF Raised(rf) \/ rf.rc /= 0 \/ ~HasChar(asn_line, ":")
        THEN Done(fb.res, <<c1>> \o fb.calls)
        ELSE IF Raised(ri)
        THEN Done(fb.res, <<c1, c2>> \o fb.calls)
        ELSE Done(Return(info), <<c1, c2>> \o wt.calls)

\* variant: a primary query that raises ends in the ultimate fallback at once,
\* without the fallback name query
get_current_app_info_RaiseSkipsFallback(rf, ri, rt, rfb) ==
    LET c1 == Call("lsappinfo", "front", <<>>, 2, rf)
        asn_line == Strip(rf.out)
        asn == RStripSet(asn_line, {":"})
        c2 == Call("lsappinfo", "info -only pid,bundleid,name", <<asn>>, 2, ri)
        fb == get_fallback_app_info(rfb)
        parsed == parse_lsappinfo_output(ri.out)
        wt == get_current_window_title(rt)
        info == IF wt.res.kind = "return" /\ ~Falsy(wt.res.val)
                THEN ("window_title" :> wt.res.val) @@ parsed ELSE parsed
    IN  IF Raised(rf) THEN Done(Return(UltimateFallback), <<c1>>)
        ELSE IF rf.rc /= 0 \/ ~HasChar(asn_line, ":")
        THEN Done(fb.res, <<c1>> \o fb.calls)
        ELSE IF Raised(ri) THEN Done(Return(UltimateFallback), <<c1, c2>>)
        ELSE IF ri.rc /= 0
        THEN Done(fb.res, <<c1, c2>> \o fb.calls)
        ELSE Done(Return(info), <<c1, c2>> \o wt.calls)

\* rf: outcome of `lsappinfo front`; ri: of `lsappinfo info`; rt: of the
\* window-title query; rfb: of the fallback name query
get_current_app_info(rf, ri, rt, rfb) ==
    LET c1 == Call("lsappinfo", "front", <<>>, 2, rf)
        asn_line == Strip(rf.out)
        asn == RStripSet(asn_line, {":"})
        c2 == Call("lsappinfo", "info -only pid,bundleid,name", <<asn>>, 2, ri)
        fb == get_fallback_app_info(rfb)
        parsed == parse_lsappinfo_output(ri.out)
        wt == get_current_window_title(rt)
        info == IF wt.res.kind = "return" /\ ~Falsy(wt.res.val)
                THEN ("window_title" :> wt.res.val) @@ parsed ELSE parsed
    IN  IF Raised(rf) \/ rf.rc /= 0 \/ ~HasChar(asn_line, ":")
        THEN Done(fb.res, <<c1>> \o fb.calls)
        ELSE IF Raised(ri) \/ ri.rc /= 0
        THEN Done(fb.res, <<c1, c2>> \o fb.calls)
        ELSE Done(Return(info), <<c1, c2>> \o wt.calls)

\* The operations below also give the value of self._current_app_info they
\* leave behind (cache), given the one they found.

\* variant: the name query also stores the snapshot it took
get_app_for_hammerspoon_Caching(cache, rf, ri, rt, rfb) ==
    Bind(get_current_app_info(rf, ri, rt, rfb), LAMBDA g :
        [res |-> Return(DictGet(g.res.val, "name", s_unknown)), calls |-> g.calls,
         cache |-> Some(g.res.val)])

get_app_for_hammerspoon(cache, rf, ri, rt, rfb) ==
    Bind(get_current_app_info(rf, ri, rt, rfb), LAMBDA g :
        [res |-> Return(DictGet(g.res.val, "name", s_unknown)), calls |-> g.calls,
         cache |-> cache])

get_bundle_id_for_fallback(cache, rf, ri, rt, rfb) ==
    Bind(get_current_app_info(rf, ri, rt, rfb), LAMBDA g :
        [res |-> Return(DictGet(g.res.val, "bundle_id", s_unknown)), calls |-> g.calls,
         cache |-> cache])

cache_current_app(cache, rf, ri, rt, rfb) ==
    Bind(get_current_app_info(rf, ri, rt, rfb), LAMBDA g :
        [res |-> Return(None), calls |-> g.calls, cache |-> Some(g.res.val)])

get_cached_app_info(cache) ==
    [res |-> Return(cache), calls |-> <<>>, cache |-> cache]

\* how a reader of a snapshot obtains its detection method
DetectionMethod(info) == DictGet(info, "method", "primary")

----------------------------------------------------------------------------
(* pathlib *)

\* Path(p).parts: the root, then the components that are neither empty nor "."
PathParts(p) ==
    (IF p /= <<>> /\ Head(p) = "/" THEN << <<"/">> >> ELSE <<>>)
    \o SelectSeq(Split(p, "/"), LAMBDA x : x /= <<>> /\ x /= <<".">>)

\* Path(p).name: the last component, "" for the root or the empty path
PathName(p) ==
    LET parts == PathParts(p)
    IN  IF parts = <<>> \/ parts[Len(parts)] = <<"/">> THEN s_empty
        ELSE parts[Len(parts)]

\* list.index: position of the first x in seq (1-based), 0 if absent
RECURSIVE IndexFrom(_, _, _)
IndexFrom(seq, x, i) ==
    IF i > Len(seq) THEN 0 ELSE IF seq[i] = x THEN i ELSE IndexFrom(seq, x, i + 1)

----------------------------------------------------------------------------
(* HammerspoonFocuser *)

p_app == <<"/", "A", "p", "p", "l", "i", "c", "a", "t", "i", "o", "n", "s", "/", "H", "a", "m", "m", "e", "r", "s", "p", "o", "o", "n", ".", "a", "p", "p", "/", "C", "o", "n", "t", "e", "n", "t", "s", "/", "F", "r", "a", "m", "e", "w", "o", "r", "k", "s", "/", "h", "s", "/", "h", "s">>
p_usr == <<"/", "u", "s", "r", "/", "l", "o", "c", "a", "l", "/", "b", "i", "n", "/", "h", "s">>
p_brew == <<"/", "o", "p", "t", "/", "h", "o", "m", "e", "b", "r", "e", "w", "/", "b", "i", "n", "/", "h", "s">>

possible_paths == <<p_app, p_usr, p_brew>>

\* the first of possible_paths that exists, None if none does
find_hammerspoon_cli(existing) ==
    LET found == SelectSeq(possible_paths, LAMBDA q : q \in existing)
    IN  IF found = <<>> THEN None ELSE found[1]

is_available(cli_path, rhs) ==
    IF Falsy(cli_path) THEN Done(Return(FALSE), <<>>)
    ELSE Done(Return(ExitedZero(rhs)),
              <<Call("hs", "-c print('test')", <<cli_path>>, 3, rhs)>>)

\* string.lower
UpperCase == <<"A", "B", "C", "D", "E", "F", "G", "H", "I", "J", "K", "L", "M",
               "N", "O", "P", "Q", "R", "S", "T", "U", "V", "W", "X", "Y", "Z">>
LowerCase == <<"a", "b", "c", "d", "e", "f", "g", "h", "i", "j", "k", "l", "m",
               "n", "o", "p", "q", "r", "s", "t", "u", "v", "w", "x", "y", "z">>
LowerChar(c) ==
    IF \E i \in 1..26 : UpperCase[i] = c
    THEN LowerCase[CHOOSE i \in 1..26 : UpperCase[i] = c] ELSE c
LowerStr(s) == [i \in 1..Len(s) |-> LowerChar(s[i])]

\* Lua pattern matching of p[k..] against s at position i. A character
\* followed by "-" matches zero or more of that character; every other
\* character matches itself. (Patterns over characters other than
\* ^ $ ( ) % . [ ] * + ? only.)
RECURSIVE LuaMatchHere(_, _, _, _)
LuaMatchHere(s, i, p, k) ==
    IF k > Len(p) THEN TRUE
    ELSE IF k + 1 <= Len(p) /\ p[k + 1] = "-"
    THEN \/ LuaMatchHere(s, i, p, k + 2)
         \/ (i <= Len(s) /\ s[i] = p[k] /\ LuaMatchHere(s, i + 1, p, k))
    ELSE i <= Len(s) /\ s[i] = p[k] /\ LuaMatchHere(s, i + 1, p, k + 1)

\* string.find(s, p) finds a match
LuaFind(s, p) == \E i \in 1..(Len(s) + 1) : LuaMatchHere(s, i, p, 1)

s_SUCCESS == <<"S", "U", "C", "C", "E", "S", "S", ":">>
s_SUCCESS_Focused == <<"S", "U", "C", "C", "E", "S", "S", ":", "F", "o", "c", "u", "s", "e", "d", " ", "c", "r", "o", "s", "s", "-", "s", "p", "a", "c", "e", " ", "w", "i", "n", "d", "o", "w">>
s_ERROR_Focus_failed == <<"E", "R", "R", "O", "R", ":", "F", "o", "c", "u", "s", " ", "c", "o", "m", "m", "a", "n", "d", " ", "f", "a", "i", "l", "e", "d">>
s_ERROR_No_windows == <<"E", "R", "R", "O", "R", ":", "N", "o", " ", "c", "r", "o", "s", "s", "-", "s", "p", "a", "c", "e", " ", "w", "i", "n", "d", "o", "w", "s", " ", "f", "o", "u", "n", "d">>
s_NO_TITLE == <<"N", "O", "_", "T", "I", "T", "L", "E">>
s_CURRENT_SPACE == <<"C", "U", "R", "R", "E", "N", "T", "_", "S", "P", "A", "C", "E", ":">>
s_CURRENT_WINDOWS == <<"C", "U", "R", "R", "E", "N", "T", "_", "W", "I", "N", "D", "O", "W", "S", ":">>
s_CROSS_SPACE_WINDOWS == <<"C", "R", "O", "S", "S", "_", "S", "P", "A", "C", "E", "_", "W", "I", "N", "D", "O", "W", "S", ":">>
s_CURRENT == <<"C", "U", "R", "R", "E", "N", "T", ":">>
s_CROSS_SPACE == <<"C", "R", "O", "S", "S", "_", "S", "P", "A", "C", "E", ":">>

\* win:title() or default
TitleOr(win, default) == IF win.title = None THEN default ELSE win.title

\* variant: without a title match the last window is taken
TargetWindow_LastWindow(otherWindows, window_title) ==
    LET hits == {i \in 1..Len(otherWindows) :
                    LuaFind(LowerStr(TitleOr(otherWindows[i], s_empty)), LowerStr(window_title))}
    IN  IF Falsy(window_title) \/ hits = {} THEN Len(otherWindows)
        ELSE CHOOSE i \in hits : \A j \in hits : i <= j

\* the window the focus script picks among otherWindows (non-empty): the
\* first whose lowered title the lowered window_title, read as a pattern,
\* finds a match in, else the first window
TargetWindow(otherWindows, window_title) ==
    LET hits == {i \in 1..Len(otherWindows) :
                    LuaFind(LowerStr(TitleOr(otherWindows[i], s_empty)), LowerStr(window_title))}
    IN  IF Falsy(window_title) \/ hits = {} THEN 1
        ELSE CHOOSE i \in hits : \A j \in hits : i <= j

\* the focus script run by the bridge: what it prints and the windows it
\* calls focus() on; focus_ok is what focus() answers
FocusScript(otherWindows, window_title, focus_ok) ==
    IF Len(otherWindows) > 0
    THEN [out |-> PrintLines(<<IF focus_ok THEN s_SUCCESS_Focused ELSE s_ERROR_Focus_failed>>),
          focused |-> <<TargetWindow(otherWindows, window_title)>>]
    ELSE [out |-> PrintLines(<<s_ERROR_No_windows>>), focused |-> <<>>]

\* the outcome of `hs -c script`: the bridge process fails (proc), or it
\* runs the script and its output follows whatever else the process printed
Bridged(proc, script_out) ==
    IF ExitedZero(proc) THEN Exit(0, proc.out \o script_out) ELSE proc

\* variant: success is read off the exit status alone
focus_app_window_IgnoreMarker(cli_path, app_name, window_title, rhs, bridge) ==
    LET avail == is_available(cli_path, rhs)
        script == FocusScript(bridge.other, window_title, bridge.focus_ok)
        res == Bridged(bridge.proc, script.out)
        c == Call("hs", "focus script", <<cli_path, app_name, window_title>>, 10, res)
    IN  IF ~avail.res.val
        THEN [res |-> Return(FALSE), calls |-> avail.calls, focused |-> <<>>]
        ELSE [res |-> Return(ExitedZero(res)),
              calls |-> avail.calls \o <<c>>,
              focused |-> IF ExitedZero(res) THEN script.focused ELSE <<>>]

\* rhs: outcome of the availability probe; bridge: the bridge process, the
\* windows of the application on other spaces and the answer of focus()
focus_app_window(cli_path, app_name, window_title, rhs, bridge) ==
    LET avail == is_available(cli_path, rhs)
        script == FocusScript(bridge.other, window_title, bridge.focus_ok)
        res == Bridged(bridge.proc, script.out)
        c == Call("hs", "focus script", <<cli_path, app_name, window_title>>, 10, res)
    IN  IF ~avail.res.val
        THEN [res |-> Return(FALSE), calls |-> avail.calls, focused |-> <<>>]
        ELSE [res |-> Return(ExitedZero(res) /\ Contains(Strip(res.out), s_SUCCESS)),
              calls |-> avail.calls \o <<c>>,
              focused |-> IF ExitedZero(res) THEN script.focused ELSE <<>>]

s_UNKNOWN == <<"U", "N", "K", "N", "O", "W", "N">>

\* one "CURRENT:"/"CROSS_SPACE:" line per window, numbered from 1
WindowLines(tag, wins) ==
    [i \in 1..Len(wins) |->
        tag \o ToStr(i) \o <<":">> \o TitleOr(wins[i], s_NO_TITLE) \o <<":">>
            \o (IF wins[i].space = None THEN s_UNKNOWN ELSE wins[i].space)]

\* what the window-listing script prints for the windows the filters return
WindowsInfoScript(space, currentWindows, otherWindows) ==
    PrintLines(<<s_CURRENT_SPACE \o ToStr(space),
                 s_CURRENT_WINDOWS \o ToStr(Len(currentWindows)),
                 s_CROSS_SPACE_WINDOWS \o ToStr(Len(otherWindows))>>
               \o WindowLines(s_CURRENT, currentWindows)
               \o WindowLines(s_CROSS_SPACE, otherWindows))

WindowsInfoInit ==
    [current_space |-> None, current_windows |-> <<>>, cross_space_windows |-> <<>>,
     total_current |-> 0, total_cross_space |-> 0]

\* {"index": int(parts[1]), "title": parts[2], "space": parts[3]}
WindowEntry(parts) == [index |-> IntVal(parts[2]), title |-> parts[3], space |-> parts[4]]

\* the loop of _parse_windows_info from line k on; raised: int() rejected a field
RECURSIVE ParseWindowsFrom(_, _, _)
ParseWindowsFrom(lines, k, info) ==
    IF k > Len(lines) THEN [raised |-> FALSE, info |-> info]
    ELSE LET line == lines[k]
             rest == SplitN(line, ":", 1)[2]
             parts == SplitN(line, ":", 3)
             failed == [raised |-> TRUE, info |-> info]
         IN  IF StartsWith(line, s_CURRENT_SPACE)
             THEN ParseWindowsFrom(lines, k + 1, [info EXCEPT !.current_space = rest])
             ELSE IF StartsWith(line, s_CURRENT_WINDOWS)
             THEN (IF IsInt(rest)
                   THEN ParseWindowsFrom(lines, k + 1, [info EXCEPT !.total_current = IntVal(rest)])
                   ELSE failed)
             ELSE IF StartsWith(line, s_CROSS_SPACE_WINDOWS)
             THEN (IF IsInt(rest)
                   THEN ParseWindowsFrom(lines, k + 1, [info EXCEPT !.total_cross_space = IntVal(rest)])
                   ELSE failed)
             ELSE IF StartsWith(line, s_CURRENT)
             THEN (IF Len(parts) < 4 THEN ParseWindowsFrom(lines, k + 1, info)
                   ELSE IF IsInt(parts[2])
                   THEN ParseWindowsFrom(lines, k + 1,
                            [info EXCEPT !.current_windows = Append(@, WindowEntry(parts))])
                   ELSE failed)
             ELSE IF StartsWith(line, s_CROSS_SPACE)
             THEN (IF Len(parts) < 4 THEN ParseWindowsFrom(lines, k + 1, info)
                   ELSE IF IsInt(parts[2])
                   THEN ParseWindowsFrom(lines, k + 1,
                            [info EXCEPT !.cross_space_windows = Append(@, WindowEntry(parts))])
                   ELSE failed)
             ELSE ParseWindowsFrom(lines, k + 1, info)

parse_windows_info(output) ==
    LET r == ParseWindowsFrom(Split(Strip(output), "\n"), 1, WindowsInfoInit)
    IN  IF r.raised THEN Raise("ValueError") ELSE Return(r.info)

\* str(e) of the exception a failed call raised
ErrorText(r) == IF r.kind = "timeout" THEN "TimeoutExpired" ELSE "OSError"

get_app_windows_info(cli_path, app_name, rhs, bridge) ==
    LET avail == is_available(cli_path, rhs)
        res == Bridged(bridge.proc,
                       WindowsInfoScript(bridge.space, bridge.current, bridge.other))
        c == Call("hs", "windows info script", <<cli_path, app_name>>, 10, res)
        parsed == parse_windows_info(res.out)
    IN  IF ~avail.res.val
        THEN Done(Return([error |-> "Hammerspoon not available"]), avail.calls)
        ELSE IF Raised(res)
        THEN Done(Return([error |-> ErrorText(res)]), avail.calls \o <<c>>)
        ELSE IF res.rc /= 0
        THEN Done(Return([error |-> "Script execution failed"]), avail.calls \o <<c>>)
        ELSE IF parsed.kind = "raise"
        THEN Done(Return([error |-> parsed.val]), avail.calls \o <<c>>)
        ELSE Done(parsed, avail.calls \o <<c>>)

----------------------------------------------------------------------------
(* ClaudeNotifier *)

\* "Claude Code (em dash) "; the string "U+2014" stands for the one character
s_window_prefix == <<"C", "l", "a", "u", "d", "e", " ", "C", "o", "d", "e", " ", "U+2014", " ">>
s_com_microsoft_VSCode == <<"c", "o", "m", ".", "m", "i", "c", "r", "o", "s", "o", "f", "t", ".", "V", "S", "C", "o", "d", "e">>
s_dot_claude == <<".", "c", "l", "a", "u", "d", "e">>

\* variant: the whole working directory is taken as the project name
determine_originating_context_FullPath(wd) ==
    IF wd = None
    THEN [project_name |-> s_unknown, expected_window |-> s_unknown,
          expected_app |-> s_unknown, expected_bundle_id |-> s_unknown]
    ELSE [project_name |-> wd,
          expected_window |-> s_window_prefix \o wd,
          expected_app |-> s_Code,
          expected_bundle_id |-> s_com_microsoft_VSCode]

\* wd: what os.getcwd() gives; None when it raises (the directory is gone)
determine_originating_context(wd) ==
    IF wd = None
    THEN [project_name |-> s_unknown, expected_window |-> s_unknown,
          expected_app |-> s_unknown, expected_bundle_id |-> s_unknown]
    ELSE [project_name |-> PathName(wd),
          expected_window |-> s_window_prefix \o PathName(wd),
          expected_app |-> s_Code,
          expected_bundle_id |-> s_com_microsoft_VSCode]

\* The object __init__ builds: it assigns app_detector, hammerspoon_focuser,
\* app_activator and originating_context, and no originating_app_info
InitOriginatingAppInfo == NoAttr

\* env: the outcomes of the calls of get_current_app_info
should_notify(app_info, env) ==
    Bind(get_current_app_info(env.rf, env.ri, env.rt, env.rfb), LAMBDA cur :
        LET current_app_name == DictGet(cur.res.val, "name", s_unknown)
        IN  IF cur.res.kind = "raise" THEN Done(cur.res, cur.calls)
            ELSE IF app_info = NoAttr THEN Done(Raise("AttributeError"), cur.calls)
            ELSE Done(Return(current_app_name /= DictGet(app_info, "name", s_unknown)),
                      cur.calls))

\* send_notification never raises, so the try/except has nothing to catch
send_hammerspoon_notification(app_info, title, message, rw, rt, rb) ==
    send_notification(title, message, DictGet(app_info, "bundle_id", None), rw, rt, rb)

\* ne: the outcomes of the calls made once the focus check has passed
send_notification_and_focus(app_info, cli_path, title, message, project_name, env, ne) ==
    Bind(should_notify(app_info, env), LAMBDA sn :
        LET enhanced_message == IF ~Falsy(project_name)
                                THEN message \o s_in \o project_name ELSE message
            avail == is_available(cli_path, ne.rhs)
            hsn == send_hammerspoon_notification(app_info, title, enhanced_message,
                                                 ne.rw1, ne.rt1, ne.rb1)
            fb == activate_with_notification(app_info, title, enhanced_message,
                                             ne.rw2, ne.rt2, ne.rb2)
        IN  IF sn.res.kind = "raise" THEN Done(sn.res, sn.calls)
            ELSE IF ~sn.res.val THEN Done(Return(FALSE), sn.calls)
            ELSE IF avail.res.val /\ hsn.res.val
                 THEN Done(Return(TRUE), sn.calls \o avail.calls \o hsn.calls)
            ELSE IF avail.res.val
                 THEN Done(fb.res, sn.calls \o avail.calls \o hsn.calls \o fb.calls)
            ELSE Done(fb.res, sn.calls \o avail.calls \o fb.calls))

\* Hook payloads: None, a JSON object, a non-zero JSON number, a JSON array
\* holding none of the keys looked up
HookNone == [type |-> "none", d |-> EmptyDict]
HookDict(d) == [type |-> "dict", d |-> d]
HookNumber == [type |-> "number", d |-> EmptyDict]
HookList == [type |-> "list", d |-> EmptyDict]

HookTruthy(h) == h.type \in {"number", "list"} \/ (h.type = "dict" /\ DOMAIN h.d /= {})
\* `key in hook_data` raises TypeError on a number
HookInRaises(h) == h.type = "number"
HookIn(key, h) == h.type = "dict" /\ key \in DOMAIN h.d

\* list.index from the end: position of the last x in seq, 0 if absent
LastIndex(seq, x) ==
    IF \E i \in 1..Len(seq) : seq[i] = x
    THEN CHOOSE i \in 1..Len(seq) : seq[i] = x /\ \A j \in (i + 1)..Len(seq) : seq[j] /= x
    ELSE 0

\* variant: the last ".claude" part is looked up instead of the first
extract_project_name_LastClaude(hook_data, wd) ==
    LET tp == hook_data.d["transcript_path"]
        parts == PathParts(tp)
        claude_index == LastIndex(parts, s_dot_claude)
        from_cwd == IF wd = None THEN Return(None) ELSE Return(PathName(wd))
    IN  IF ~HookTruthy(hook_data) THEN from_cwd
        ELSE IF HookInRaises(hook_data) THEN Raise("TypeError")
        ELSE IF HookIn("project", hook_data) THEN Return(hook_data.d["project"])
        ELSE IF /\ HookIn("transcript_path", hook_data)
                /\ ~Falsy(tp)
                /\ claude_index > 1
             THEN Return(parts[claude_index - 1])
        ELSE from_cwd

extract_project_name(hook_data, wd) ==
    LET tp == hook_data.d["transcript_path"]
        parts == PathParts(tp)
        claude_index == IndexFrom(parts, s_dot_claude, 1)
        from_cwd == IF wd = None THEN Return(None) ELSE Return(PathName(wd))
    IN  IF ~HookTruthy(hook_data) THEN from_cwd
        ELSE IF HookInRaises(hook_data) THEN Raise("TypeError")
        ELSE IF HookIn("project", hook_data) THEN Return(hook_data.d["project"])
        ELSE IF /\ HookIn("transcript_path", hook_data)
                /\ ~Falsy(tp)
                /\ claude_index > 1
             THEN Return(parts[claude_index - 1])
        ELSE from_cwd

\* the body shared by the two handlers once title and message are chosen
handle(app_info, cli_path, hook_data, wd, title, message, env, ne) ==
    Bind(extract_project_name(hook_data, wd), LAMBDA pn :
        IF pn.kind = "raise" THEN Done(Return(FALSE), <<>>)
        ELSE Bind(send_notification_and_focus(app_info, cli_path, title, message,
                                              pn.val, env, ne), LAMBDA snf :
                 IF snf.res.kind = "raise" THEN Done(Return(FALSE), snf.calls)
                 ELSE Done(Return(TRUE), snf.calls)))

handle_claude_completion(app_info, cli_path, hook_data, wd, env, ne) ==
    handle(app_info, cli_path, hook_data, wd, s_Claude_Code, s_Task_completed, env, ne)

handle_claude_notification(app_info, cli_path, hook_data, wd, env, ne) ==
    IF HookTruthy(hook_data) /\ ~HookInRaises(hook_data) /\ HookIn("message", hook_data)
    THEN handle(app_info, cli_path, hook_data, wd,
                DictGet(hook_data.d, "title", s_Claude_Code), hook_data.d["message"],
                env, ne)
    ELSE handle(app_info, cli_path, hook_data, wd, s_Claude_Code, s_Notification, env, ne)

\* stdin as main sees it: a terminal, or piped content that is blank, is not
\* JSON, or is a JSON value
StdinTty == [kind |-> "tty", value |-> HookNone]
StdinBlank == [kind |-> "blank", value |-> HookNone]
StdinMalformed == [kind |-> "malformed", value |-> HookNone]
StdinJson(v) == [kind |-> "json", value |-> v]

read_hook_data(stdin) == IF stdin.kind = "json" THEN stdin.value ELSE HookNone

NoArgv == "<no argv[1]>"
Lower(a) == IF a = "STOP" THEN "stop" ELSE a

\* main() from reading stdin to sys.exit; the result is the exit status
main(stdin, argv1, wd, cli_path, env, ne) ==
    LET hook_data == read_hook_data(stdin)
        app_info == InitOriginatingAppInfo
        hook_type == IF argv1 = NoArgv THEN "completion" ELSE Lower(argv1)
        completion == handle_claude_completion(app_info, cli_path, hook_data, wd, env, ne)
        notification == handle_claude_notification(app_info, cli_path, hook_data, wd, env, ne)
        exit(handled) == Bind(handled, LAMBDA h :
                              Done(Return(IF h.res.val THEN 0 ELSE 1), h.calls))
    IN  IF hook_type \in {"completion", "stop"} THEN exit(completion)
        ELSE IF hook_type \in {"notification", "notify"} THEN exit(notification)
        ELSE IF HookTruthy(hook_data) /\ HookInRaises(hook_data)
             THEN Done(Return(1), <<>>)
        ELSE IF HookTruthy(hook_data) /\ HookIn("message", hook_data)
             THEN exit(notification)
        ELSE exit(completion)

----------------------------------------------------------------------------
(* window_detective *)

\* one line of the module's _parse_lsappinfo_output: every key is kept and
\* every value stays text
detective_parse_line(info, line) ==
    LET i == Find(line, "=")
        key == StripSet(Strip(SubSeq(line, 1, i - 1)), {"\""})
        value == StripSet(Strip(SubSeq(line, i + 1, Len(line))), {"\""})
    IN  IF i = 0 THEN info ELSE (key :> value) @@ info

RECURSIVE DetectiveParseFrom(_, _, _)
DetectiveParseFrom(lines, i, info) ==
    IF i > Len(lines) THEN info
    ELSE DetectiveParseFrom(lines, i + 1, detective_parse_line(info, lines[i]))

detective_parse_lsappinfo_output(output) ==
    DetectiveParseFrom(Split(Strip(output), "\n"), 1, EmptyDict)

normalize_app_info(info) ==
    LET pid == IF k_pid \in DOMAIN info /\ IsInt(info[k_pid])
               THEN "pid" :> IntVal(info[k_pid]) ELSE EmptyDict
        bundleid == IF k_CFBundleIdentifier \in DOMAIN info
                    THEN "bundleid" :> info[k_CFBundleIdentifier] ELSE EmptyDict
        name == IF k_LSDisplayName \in DOMAIN info
                THEN "name" :> info[k_LSDisplayName] ELSE EmptyDict
    IN  pid @@ bundleid @@ name

\* the text of `except Exception as e: f"Unexpected error: {e}"`
UnexpectedError == "Unexpected error: OSError"

\* rf: outcome of `lsappinfo front`; ri: of `lsappinfo info`.  raw_output is
\* the command's stderr, which the outcomes leave empty.
get_focused_window_info(rf, ri) ==
    LET c1 == Call("lsappinfo", "front", <<>>, 2, rf)
        asn == Strip(rf.out)
        c2 == Call("lsappinfo", "info -only pid,bundleid,name", <<asn>>, 2, ri)
    IN  IF rf.kind = "timeout"
        THEN Done(Return([error |-> "Timeout getting focused window info"]), <<c1>>)
        ELSE IF Raised(rf)
        THEN Done(Return([error |-> UnexpectedError]), <<c1>>)
        ELSE IF rf.rc /= 0
        THEN Done(Return([error |-> "Failed to get front app", raw_output |-> s_empty]),
                  <<c1>>)
        ELSE IF Falsy(asn)
        THEN Done(Return([error |-> "No front app ASN returned"]), <<c1>>)
        ELSE IF ri.kind = "timeout"
        THEN Done(Return([error |-> "Timeout getting focused window info"]), <<c1, c2>>)
        ELSE IF Raised(ri)
        THEN Done(Return([error |-> UnexpectedError]), <<c1, c2>>)
        ELSE IF ri.rc /= 0
        THEN Done(Return([error |-> "Failed to get focused app info",
                          raw_output |-> s_empty]), <<c1, c2>>)
        ELSE Done(Return(normalize_app_info(detective_parse_lsappinfo_output(ri.out))),
                  <<c1, c2>>)

\* current_info.get("pid") != initial_info.get("pid")
PidDiffers(current_info, initial_info) ==
    IF "pid" \in DOMAIN current_info /\ "pid" \in DOMAIN initial_info
    THEN current_info.pid /= initial_info.pid
    ELSE ("pid" \in DOMAIN current_info) /= ("pid" \in DOMAIN initial_info)

\* the polling loop from its i-th iteration; polls[i] holds the outcomes of
\* the i-th query, and the clock passes the timeout after the last of polls
RECURSIVE DetectFrom(_, _, _, _)
DetectFrom(initial_info, polls, i, cs) ==
    IF i > Len(polls) THEN Done(Return(Nothing), cs)
    ELSE Bind(get_focused_window_info(polls[i].rf, polls[i].ri), LAMBDA cur :
             IF PidDiffers(cur.res.val, initial_info)
             THEN Done(Return(Some(cur.res.val)), cs \o cur.calls)
             ELSE DetectFrom(initial_info, polls, i + 1, cs \o cur.calls))

detect_window_change(initial_info, polls) == DetectFrom(initial_info, polls, 1, <<>>)

----------------------------------------------------------------------------
(* window_detective_reliable *)

get_app_info_lsappinfo(rf, ri) ==
    LET c1 == Call("lsappinfo", "front", <<>>, 2, rf)
        asn == Strip(rf.out)
        c2 == Call("lsappinfo", "info -only pid,bundleid,name", <<asn>>, 2, ri)
    IN  IF rf.kind = "timeout"
        THEN Done(Return([error |-> "Timeout getting focused window info"]), <<c1>>)
        ELSE IF Raised(rf)
        THEN Done(Return([error |-> UnexpectedError]), <<c1>>)
        ELSE IF rf.rc /= 0
        THEN Done(Return([error |-> "Failed to get front app"]), <<c1>>)
        ELSE IF Falsy(asn)
        THEN Done(Return([error |-> "No front app ASN returned"]), <<c1>>)
        ELSE IF ri.kind = "timeout"
        THEN Done(Return([error |-> "Timeout getting focused window info"]), <<c1, c2>>)
        ELSE IF Raised(ri)
        THEN Done(Return([error |-> UnexpectedError]), <<c1, c2>>)
        ELSE IF ri.rc /= 0
        THEN Done(Return([error |-> "Failed to get focused app info"]), <<c1, c2>>)
        ELSE Done(Return(normalize_app_info(detective_parse_lsappinfo_output(ri.out))),
                  <<c1, c2>>)

\* wn: what get_main_window_number gives for the app's pid, 0 standing for
\* None (no Quartz binding, no window, or a failed query)
reliable_get_focused_window_info(rf, ri, wn) ==
    Bind(get_app_info_lsappinfo(rf, ri), LAMBDA a :
        IF "error" \in DOMAIN a.res.val THEN a
        ELSE IF "pid" \in DOMAIN a.res.val /\ a.res.val.pid /= 0 /\ wn /= 0
        THEN Done(Return(("window_number" :> wn) @@ a.res.val), a.calls)
        ELSE a)

s_error == <<"e", "r", "r", "o", "r">>
s_no_window == <<"n", "o", "_", "w", "i", "n", "d", "o", "w">>

create_window_signature(window_info) ==
    LET pid == IF "pid" \in DOMAIN window_info THEN Str(window_info.pid) ELSE s_unknown
    IN  IF "error" \in DOMAIN window_info THEN s_error
        ELSE IF "window_number" \in DOMAIN window_info /\ window_info.window_number /= 0
        THEN pid \o <<":">> \o Str(window_info.window_number)
        ELSE pid \o <<":">> \o s_no_window

RECURSIVE ReliableDetectFrom(_, _, _, _)
ReliableDetectFrom(initial_info, polls, i, cs) ==
    IF i > Len(polls) THEN Done(Return(Nothing), cs)
    ELSE Bind(reliable_get_focused_window_info(polls[i].rf, polls[i].ri, polls[i].wn),
              LAMBDA cur :
             IF "error" \in DOMAIN cur.res.val
             THEN ReliableDetectFrom(initial_info, polls, i + 1, cs \o cur.calls)
             ELSE IF create_window_signature(cur.res.val)
                       /= create_window_signature(initial_info)
             THEN Done(Return(Some(cur.res.val)), cs \o cur.calls)
             ELSE ReliableDetectFrom(initial_info, polls, i + 1, cs \o cur.calls))

reliable_detect_window_change(initial_info, polls) ==
    ReliableDetectFrom(initial_info, polls, 1, <<>>)

----------------------------------------------------------------------------
(* WindowContextDetector *)

s_missing_value == <<"m", "i", "s", "s", "i", "n", "g", " ", "v", "a", "l", "u", "e">>
s_ERROR_No_app == <<"E", "R", "R", "O", "R", ":", "N", "o", " ", "a", "p", "p", " ",
                    "f", "o", "r", " ", "w", "i", "n", "d", "o", "w">>
s_ERROR_No_focused == <<"E", "R", "R", "O", "R", ":", "N", "o", " ", "f", "o", "c", "u",
                        "s", "e", "d", " ", "w", "i", "n", "d", "o", "w">>

UnknownContext ==
    [app_name |-> s_unknown, window_title |-> s_unknown, bundle_id |-> s_unknown]

\* rbid: outcome of the bundle-identifier query
get_bundle_id_for_app(app_name, rbid) ==
    LET c == Call("osascript", "bundle identifier of frontApp", <<app_name>>, 3, rbid)
        bundle_id == Strip(rbid.out)
    IN  IF ExitedZero(rbid) /\ ~Falsy(bundle_id) /\ bundle_id /= s_missing_value
        THEN Done(Return(bundle_id), <<c>>)
        ELSE Done(Return(s_unknown), <<c>>)

\* ra: outcome of the System Events query printing appName|windowTitle
get_context_via_applescript(ra, rbid) ==
    LET c == Call("osascript", "appName & | & windowTitle", <<>>, 5, ra)
        parts == Split(Strip(ra.out), "|")
    IN  IF ExitedZero(ra) /\ Len(parts) >= 2
        THEN Bind(get_bundle_id_for_app(parts[1], rbid), LAMBDA b :
                 Done(Return([app_name |-> parts[1], window_title |-> parts[2],
                              bundle_id |-> b.res.val]), <<c>> \o b.calls))
        ELSE Done(Return(UnknownContext), <<c>>)

\* what window.focusedWindow() and focusedWin:application() give when there
\* is none
NoApp == [name |-> None, bundleID |-> None]
NoFocusedWindow == [present |-> FALSE, title |-> None, app |-> NoApp]
FocusedWindow(title, app) == [present |-> TRUE, title |-> title, app |-> app]

\* the context script run by the bridge on the focused window, if any: a
\* window has a title (None when it has none) and an app (its name and
\* bundleID, or NoApp)
ContextScript(focusedWin) ==
    IF ~focusedWin.present THEN PrintLines(<<s_ERROR_No_focused>>)
    ELSE IF focusedWin.app = NoApp THEN PrintLines(<<s_ERROR_No_app>>)
    ELSE PrintLines(<<s_SUCCESS \o focusedWin.app.name \o <<"|">>
                        \o TitleOr(focusedWin, s_NO_TITLE) \o <<"|">>
                        \o (IF focusedWin.app.bundleID = None THEN s_unknown
                            ELSE focusedWin.app.bundleID)>>)

\* cli_path: what _find_hammerspoon_cli gives; rh: outcome of `hs -c script`
get_context_via_hammerspoon(cli_path, rh) ==
    LET c == Call("hs", "context script", <<cli_path>>, 5, rh)
        output == Strip(rh.out)
        parts == Split(SubSeq(output, 9, Len(output)), "|")
    IN  IF Falsy(cli_path) THEN Done(Return(UnknownContext), <<>>)
        ELSE IF ExitedZero(rh) /\ StartsWith(output, s_SUCCESS) /\ Len(parts) >= 3
        THEN Done(Return([app_name |-> parts[1], window_title |-> parts[2],
                          bundle_id |-> parts[3]]), <<c>>)
        ELSE Done(Return(UnknownContext), <<c>>)

Tagged(context, method) ==
    [app_name |-> context.app_name, window_title |-> context.window_title,
     bundle_id |-> context.bundle_id, detection_method |-> method]

get_current_window_context(cli_path, ra, rbid, rh) ==
    Bind(get_context_via_applescript(ra, rbid), LAMBDA a :
        IF ~Falsy(a.res.val.window_title)
        THEN Done(Return(Tagged(a.res.val, "applescript")), a.calls)
        ELSE Bind(get_context_via_hammerspoon(cli_path, rh), LAMBDA h :
                 IF ~Falsy(h.res.val.window_title)
                 THEN Done(Return(Tagged(h.res.val, "hammerspoon")), a.calls \o h.calls)
                 ELSE Done(Return(Tagged(UnknownContext, "failed")), a.calls \o h.calls)))

----------------------------------------------------------------------------
(* Inputs *)

NameAlphabet == {"a", " "}
AppNames == AllStr(NameAlphabet, MaxNameLen) \cup {None, s_unknown, s_Code}
BundleIds == {None, s_empty, s_unknown, s_com_a}
Titles == {s_Claude_Code}
Messages == {s_Task_completed, s_Notification}

Line(key, value) == <<"\"">> \o key \o <<"\"", "=">> \o value \o <<"\n">>
Quoted(v) == <<"\"">> \o v \o <<"\"">>

FrontOutputs == {<<"A", "S", "N", ":", "1", ":", "\n">>, <<"x", "\n">>, <<>>}
InfoOutputs ==
    { Line(k_pid, <<"4", "2">>) \o Line(k_CFBundleIdentifier, Quoted(s_com_a))
          \o Line(k_LSDisplayName, Quoted(s_Code)),
      Line(k_pid, <<"x">>) \o Line(k_LSDisplayName, Quoted(s_Term)),
      Line(k_CFBundleIdentifier, Quoted(s_com_a)),
      <<>> }
TitleOutputs == {<<"w", "\n">>, <<"\n">>}
FallbackOutputs == {s_Code \o <<"\n">>, s_Term \o <<"\n">>, <<>>}

Failures == {Exit(1, <<>>), TimeoutExpired, OSError}
FrontOutcomes == {Exit(0, o) : o \in FrontOutputs} \cup Failures
InfoOutcomes == {Exit(0, o) : o \in InfoOutputs} \cup Failures
TitleOutcomes == {Exit(0, o) : o \in TitleOutputs} \cup Failures
FallbackOutcomes == {Exit(0, o) : o \in FallbackOutputs} \cup Failures

\* the outcome slot of a command that the run never issues
NotCalled == [kind |-> "notcalled", rc |-> -1, out |-> <<>>]

\* One outcome for each command a run of the snapshot reader issues: the
\* info query follows a usable front answer, the title query a successful
\* info query, the fallback query a failed primary query
FrontUsable(rf) == ExitedZero(rf) /\ HasChar(rf.out, ":")
DetectorEnvs ==
    {e \in [rf : FrontOutcomes, ri : InfoOutcomes \cup {NotCalled},
            rt : TitleOutcomes \cup {NotCalled}, rfb : FallbackOutcomes \cup {NotCalled}] :
        /\ (e.ri = NotCalled) <=> ~FrontUsable(e.rf)
        /\ (e.rt = NotCalled) <=> ~(FrontUsable(e.rf) /\ ExitedZero(e.ri))
        /\ (e.rfb = NotCalled) <=> (FrontUsable(e.rf) /\ ExitedZero(e.ri))}

\* outcomes of the two lsappinfo calls of the window detective: the info
\* query follows a front answer that is not blank
DetectiveEnvs ==
    {e \in [rf : FrontOutcomes, ri : InfoOutcomes \cup {NotCalled}] :
        (e.ri = NotCalled) <=> ~(ExitedZero(e.rf) /\ ~Falsy(Strip(e.rf.out)))}

\* the outcomes of one query of a polling loop
PollEnvs ==
    {e \in DetectiveEnvs :
        /\ e.rf \in {Exit(0, <<"A", "S", "N", ":", "1", ":", "\n">>), Exit(1, <<>>)}
        /\ e.ri \in {NotCalled, TimeoutExpired,
                     Exit(0, Line(k_pid, <<"4", "2">>) \o Line(k_CFBundleIdentifier, Quoted(s_com_a))
                                 \o Line(k_LSDisplayName, Quoted(s_Code))),
                     Exit(0, Line(k_CFBundleIdentifier, Quoted(s_com_a)))}}
ReliablePollEnvs ==
    {e \in [rf : FrontOutcomes, ri : InfoOutcomes \cup {NotCalled}, wn : {0, 7}] :
        [rf |-> e.rf, ri |-> e.ri] \in PollEnvs}
\* the snapshot taken before the loop: with the pid later seen, with another
\* pid, without a pid
InitialInfos ==
    { "pid" :> 42 @@ "bundleid" :> s_com_a @@ "name" :> s_Code,
      "pid" :> 7 @@ "name" :> s_Term,
      "bundleid" :> s_com_a }
ReliableInitialInfos ==
    InitialInfos \cup {"pid" :> 42 @@ "name" :> s_Code @@ "window_number" :> 7}
SeqsUpTo(S, n) == UNION {[1..k -> S] : k \in 0..n}

\* what the AppleScript context query and the bundle-identifier query print
ContextOutputs ==
    { s_Code \o <<"|", "w", "\n">>, s_Code \o <<"|", "\n">>, s_Code \o <<"\n">> }
BundleOutputs == {s_com_a \o <<"\n">>, s_missing_value \o <<"\n">>}
\* the focused window the bridge sees
FocusedWindows ==
    { NoFocusedWindow,
      FocusedWindow(<<"w">>, [name |-> s_Code, bundleID |-> s_com_a]),
      FocusedWindow(s_empty, [name |-> s_Code, bundleID |-> None]),
      FocusedWindow(None, [name |-> s_Term, bundleID |-> s_com_a]),
      FocusedWindow(<<"w">>, NoApp) }
ContextBridgeOutcomes ==
    {Bridged(proc, ContextScript(w)) : proc \in PlainOutcomes, w \in FocusedWindows}
\* one outcome for each command a run of the context detector issues: the
\* bundle query follows an AppleScript answer with a separator, the bridge a
\* context query that gave an empty title
AppleScriptParts(ra) == Split(Strip(ra.out), "|")
ContextEnvs ==
    {e \in [ra : {Exit(0, o) : o \in ContextOutputs} \cup Failures,
            rbid : {Exit(0, o) : o \in BundleOutputs} \cup Failures \cup {NotCalled},
            rh : ContextBridgeOutcomes \cup {NotCalled}] :
        /\ (e.rbid = NotCalled) <=> ~(ExitedZero(e.ra) /\ Len(AppleScriptParts(e.ra)) >= 2)
        /\ (e.rh = NotCalled) <=>
              (hs_cli_path = None \/
               ~Falsy(get_context_via_applescript(e.ra, e.rbid).res.val.window_title))}

NotifEnvs ==
    [rhs : PlainOutcomes,
     rw1 : NoTimeoutOutcomes, rt1 : PlainOutcomes, rb1 : PlainOutcomes,
     rw2 : NoTimeoutOutcomes, rt2 : PlainOutcomes, rb2 : PlainOutcomes]
NoNotifEnv ==
    [rhs |-> NotCalled, rw1 |-> NotCalled, rt1 |-> NotCalled, rb1 |-> NotCalled,
     rw2 |-> NotCalled, rt2 |-> NotCalled, rb2 |-> NotCalled]

\* the outcomes drawn for the part of a run behind the focus check
NotifEnvsAfter(sn) ==
    IF sn.res.kind = "return" /\ sn.res.val = TRUE THEN NotifEnvs ELSE {NoNotifEnv}

Cwds == {<<"/", "p", "/", "a">>, <<"/">>, None}
InstalledSets == {{}, {p_brew}, {p_usr, p_brew}}
ProjectNames == {None, <<"a">>}
HookDatas ==
    {HookNone, HookDict(EmptyDict), HookNumber, HookList,
     HookDict([message |-> <<"h", "i">>]),
     HookDict([message |-> <<"h", "i">>, title |-> <<"T">>]),
     HookDict([project |-> <<"p">>]),
     HookDict([transcript_path |-> <<"/", "b", "/">> \o s_dot_claude \o <<"/", "t">>])}
StdinInputs == {StdinTty, StdinBlank, StdinMalformed} \cup {StdinJson(h) : h \in HookDatas \ {HookNone}}

\* payloads for project-name extraction: transcript paths with ".claude"
\* after a directory, directly under the root, first in a relative path and
\* again later, twice in a row, and absent
TranscriptPaths ==
    { <<"/", "b", "/">> \o s_dot_claude \o <<"/", "t">>,
      <<"/">> \o s_dot_claude \o <<"/", "t">>,
      s_dot_claude \o <<"/", "q", "/">> \o s_dot_claude \o <<"/", "t">>,
      <<"b", "/">> \o s_dot_claude \o <<"/">> \o s_dot_claude \o <<"/", "t">>,
      <<"/", "b", "/", "t">>,
      s_empty }
ExtractHookDatas ==
    {HookNone, HookDict(EmptyDict), HookNumber, HookList,
     HookDict([message |-> <<"h", "i">>]),
     HookDict([project |-> <<"p">>]),
     HookDict([project |-> <<"p">>,
               transcript_path |-> <<"/", "b", "/">> \o s_dot_claude \o <<"/", "t">>])}
    \cup {HookDict([transcript_path |-> tp]) : tp \in TranscriptPaths}

\* a window of the application: its title (None: no title) and the space it
\* is on (None: not known)
Window(title, space) == [title |-> title, space |-> space]
WindowLists ==
    { <<>>,
      <<Window(<<"b">>, <<"6">>)>>,
      <<Window(<<"b">>, <<"6">>), Window(<<"a", "-", "b">>, <<"7">>)>>,
      <<Window(<<"x">>, <<"6">>), Window(<<"A", "B">>, <<"7">>)>>,
      <<Window(None, None)>>,
      <<Window(<<"a", ":", "b">>, <<"6">>)>> }
WindowTitleFilters == {None, s_empty, <<"a", "b">>, <<"a", "-", "b">>, <<"z">>}
\* the availability probe answered; the bridge then runs the script or fails
FocusBridges ==
    [proc : PlainOutcomes, space : {5}, current : {<<>>}, other : WindowLists,
     focus_ok : BOOLEAN]
s_bad_total == <<"C", "U", "R", "R", "E", "N", "T", "_", "W", "I", "N", "D", "O", "W", "S", ":", "x">> \o <<"\n">>
InfoBridges ==
    [proc : PlainOutcomes \cup {Exit(0, s_bad_total)}, space : {5},
     current : {<<>>, <<Window(<<"b">>, <<"5">>)>>}, other : WindowLists,
     focus_ok : {TRUE}]

Argv1s == {NoArgv, "completion", "STOP", "notification", "notify", "auto"}

----------------------------------------------------------------------------
(* State machine *)

Finish(name, input, d) ==
    /\ op' = name
    /\ invoked' = <<name, input>>
    /\ calls' = d.calls
    /\ returned' = <<name, d.res.kind, d.res.val>>
    /\ focused' = IF "focused" \in DOMAIN d THEN d.focused ELSE <<>>

Init ==
    /\ op = "idle"
    /\ invoked = <<"idle", <<>>>>
    /\ calls = <<>>
    /\ returned = <<"idle", NoResult.kind, NoResult.val>>
    /\ cwd \in Cwds
    /\ originating_context = determine_originating_context(cwd)
    /\ originating_app_info = InitOriginatingAppInfo
    /\ \E existing \in InstalledSets : hs_cli_path = find_hammerspoon_cli(existing)
    /\ exit_code = -1
    /\ focused = <<>>
    /\ current_app_info = Nothing

\* the caller takes the result; the objects stay (after main the process
\* has exited and nothing follows)
Idle ==
    /\ op \notin {"idle", "main"}
    /\ op' = "idle"
    /\ invoked' = <<"idle", <<>>>>
    /\ calls' = <<>>
    /\ returned' = <<"idle", NoResult.kind, NoResult.val>>
    /\ focused' = <<>>
    /\ UNCHANGED <<objects, exit_code>>

ActivateAppByBundleId ==
    /\ op = "idle"
    /\ \E bundle_id \in BundleIds, r \in PlainOutcomes :
        Finish("activate_app_by_bundle_id", [bundle_id |-> bundle_id],
               activate_app_by_bundle_id(bundle_id, r))
    /\ UNCHANGED <<objects, exit_code>>

ActivateAppByName ==
    /\ op = "idle"
    /\ \E app_name \in AppNames, r \in PlainOutcomes :
        \E rv \in [1..Len(NameVariations(app_name)) -> PlainOutcomes] :
            Finish("activate_app_by_name", [app_name |-> app_name],
                   activate_app_by_name(app_name, r, rv))
    /\ UNCHANGED <<objects, exit_code>>

SendNotification ==
    /\ op = "idle"
    /\ \E title \in Titles, message \in Messages, bundle_id \in BundleIds,
          rw \in NoTimeoutOutcomes, rt \in PlainOutcomes, rb \in PlainOutcomes :
        Finish("send_notification",
               [title |-> title, message |-> message, bundle_id |-> bundle_id],
               send_notification(title, message, bundle_id, rw, rt, rb))
    /\ UNCHANGED <<objects, exit_code>>

\* arg records the outcome each command of the run had
GetCurrentAppInfo ==
    /\ op = "idle"
    /\ \E e \in DetectorEnvs :
        Finish("get_current_app_info", [env |-> e],
               get_current_app_info(e.rf, e.ri, e.rt, e.rfb))
    /\ UNCHANGED <<objects, exit_code>>

\* arg records the snapshot the focus check read
ShouldNotify ==
    /\ op = "idle"
    /\ \E e \in DetectorEnvs :
        \E d \in {should_notify(originating_app_info, e)} :
            Finish("should_notify",
                   [current |-> get_current_app_info(e.rf, e.ri, e.rt, e.rfb).res.val], d)
    /\ UNCHANGED <<objects, exit_code>>

SendNotificationAndFocus ==
    /\ op = "idle"
    /\ \E title \in Titles, message \in Messages, project_name \in ProjectNames,
          e \in DetectorEnvs :
        \E ne \in NotifEnvsAfter(should_notify(originating_app_info, e)) :
            \E d \in {send_notification_and_focus(originating_app_info, hs_cli_path,
                                                   title, message, project_name, e, ne)} :
                Finish("send_notification_and_focus",
                       [title |-> title, message |-> message, project_name |-> project_name,
                        current |-> get_current_app_info(e.rf, e.ri, e.rt, e.rfb).res.val],
                       d)
    /\ UNCHANGED <<objects, exit_code>>

\* a run of the CLI entry point: it builds its own ClaudeNotifier
Main ==
    /\ op = "idle"
    /\ \E stdin \in StdinInputs, argv1 \in Argv1s, e \in DetectorEnvs :
        \E ne \in NotifEnvsAfter(should_notify(InitOriginatingAppInfo, e)) :
            \E m \in {main(stdin, argv1, cwd, hs_cli_path, e, ne)} :
                /\ Finish("main", [stdin |-> stdin, argv1 |-> argv1, env |-> e, ne |-> ne], m)
                /\ exit_code' = m.res.val
    /\ originating_context' = determine_originating_context(cwd)
    /\ originating_app_info' = InitOriginatingAppInfo
    /\ UNCHANGED <<hs_cli_path, cwd, current_app_info>>

ExtractProjectName ==
    /\ op = "idle"
    /\ \E h \in ExtractHookDatas :
        Finish("extract_project_name", [hook_data |-> h],
               Done(extract_project_name(h, cwd), <<>>))
    /\ UNCHANGED <<objects, exit_code>>

FocusAppWindow ==
    /\ op = "idle"
    /\ \E window_title \in WindowTitleFilters, rhs \in PlainOutcomes, b \in FocusBridges :
        Finish("focus_app_window",
               [app_name |-> s_Code, window_title |-> window_title, bridge |-> b],
               focus_app_window(hs_cli_path, s_Code, window_title, rhs, b))
    /\ UNCHANGED <<objects, exit_code>>

GetAppWindowsInfo ==
    /\ op = "idle"
    /\ \E rhs \in PlainOutcomes, b \in InfoBridges :
        \E d \in {get_app_windows_info(hs_cli_path, s_Code, rhs, b)} :
            Finish("get_app_windows_info", [app_name |-> s_Code, bridge |-> b], d)
    /\ UNCHANGED <<objects, exit_code>>

GetFocusedWindowInfo ==
    /\ op = "idle"
    /\ \E e \in DetectiveEnvs :
        Finish("get_focused_window_info", [env |-> e],
               get_focused_window_info(e.rf, e.ri))
    /\ UNCHANGED <<objects, exit_code>>

GetCurrentWindowContext ==
    /\ op = "idle"
    /\ \E e \in ContextEnvs :
        Finish("get_current_window_context", [env |-> e],
               get_current_window_context(hs_cli_path, e.ra, e.rbid, e.rh))
    /\ UNCHANGED <<objects, exit_code>>

\* every query of polls is made: the loop has not returned before the last
DetectWindowChange ==
    /\ op = "idle"
    /\ \E initial_info \in InitialInfos, polls \in SeqsUpTo(PollEnvs, MaxPolls) :
        /\ \A k \in 0..(Len(polls) - 1) :
              detect_window_change(initial_info, SubSeq(polls, 1, k)).res.val = Nothing
        /\ Finish("detect_window_change", [initial_info |-> initial_info, polls |-> polls],
                  detect_window_change(initial_info, polls))
    /\ UNCHANGED <<objects, exit_code>>

ReliableDetectWindowChange ==
    /\ op = "idle"
    /\ \E initial_info \in ReliableInitialInfos, polls \in SeqsUpTo(ReliablePollEnvs, MaxPolls) :
        /\ \A k \in 0..(Len(polls) - 1) :
              reliable_detect_window_change(initial_info, SubSeq(polls, 1, k)).res.val = Nothing
        /\ Finish("reliable_detect_window_change",
                  [initial_info |-> initial_info, polls |-> polls],
                  reliable_detect_window_change(initial_info, polls))
    /\ UNCHANGED <<objects, exit_code>>

Next ==
    \/ Idle
    \/ ActivateAppByBundleId
    \/ ActivateAppByName
    \/ SendNotification
    \/ GetCurrentAppInfo
    \/ ShouldNotify
    \/ SendNotificationAndFocus
    \/ Main
    \/ ExtractProjectName
    \/ FocusAppWindow
    \/ GetAppWindowsInfo
    \/ GetFocusedWindowInfo
    \/ GetCurrentWindowContext
    \/ DetectWindowChange
    \/ ReliableDetectWindowChange

Spec == Init /\ [][Next]_vars

\* The operations of one AppDetector and its snapshot cache
kept == <<originating_context, originating_app_info, hs_cli_path, cwd, exit_code>>

CacheCurrentApp ==
    /\ op = "idle"
    /\ \E e \in DetectorEnvs :
        \E d \in {cache_current_app(current_app_info, e.rf, e.ri, e.rt, e.rfb)} :
            /\ Finish("cache_current_app", [env |-> e], d)
            /\ current_app_info' = d.cache
    /\ UNCHANGED kept

GetCachedAppInfo ==
    /\ op = "idle"
    /\ \E d \in {get_cached_app_info(current_app_info)} :
        /\ Finish("get_cached_app_info", [env |-> NotCalled], d)
        /\ current_app_info' = d.cache
    /\ UNCHANGED kept

GetAppForHammerspoon ==
    /\ op = "idle"
    /\ \E e \in DetectorEnvs :
        \E d \in {get_app_for_hammerspoon(current_app_info, e.rf, e.ri, e.rt, e.rfb)} :
            /\ Finish("get_app_for_hammerspoon", [env |-> e], d)
            /\ current_app_info' = d.cache
    /\ UNCHANGED kept

GetBundleIdForFallback ==
    /\ op = "idle"
    /\ \E e \in DetectorEnvs :
        \E d \in {get_bundle_id_for_fallback(current_app_info, e.rf, e.ri, e.rt, e.rfb)} :
            /\ Finish("get_bundle_id_for_fallback", [env |-> e], d)
            /\ current_app_info' = d.cache
    /\ UNCHANGED kept

DetectorNext ==
    \/ Idle
    \/ GetCurrentAppInfo
    \/ CacheCurrentApp
    \/ GetCachedAppInfo
    \/ GetAppForHammerspoon
    \/ GetBundleIdForFallback

DetectorSpec == Init /\ [][DetectorNext]_vars

----------------------------------------------------------------------------
(* Reading the call log *)

IsNotification(c) == c.tool = "terminal-notifier" \/ c.script = "display notification"
IsBasicNotification(c) == c.script = "display notification"
IsActivation(c) ==
    c.script \in {"tell application id to activate", "tell application to activate"}
IsFallbackQuery(c) == c.script = "name of frontApp"
IsTitleQuery(c) == c.script = "name of front window of frontApp"

\* a primary query of the snapshot reader that did not give a usable answer
PrimaryQueryFailed(c) ==
    /\ c.tool = "lsappinfo"
    /\ IF c.script = "front" THEN ~FrontUsable(c.res) ELSE ~ExitedZero(c.res)

Idx(P(_)) == {i \in 1..Len(calls) : P(calls[i])}

CurrentName == DictGet(arg.current, "name", s_unknown)
OriginatingName == DictGet(originating_app_info, "name", s_unknown)
FocusCheckFoundChange ==
    originating_app_info /= NoAttr /\ CurrentName /= OriginatingName

----------------------------------------------------------------------------
(* Claims *)

\* C1: should_notify returns True exactly when the current snapshot's name
\* differs from the originating snapshot's name.
C1_ShouldNotifyIffNameDiffers ==
    op = "should_notify" =>
        /\ ret.kind = "return"
        /\ originating_app_info /= NoAttr
        /\ ret.val = (CurrentName /= OriginatingName)

\* C2: main exits 0 whenever the hook was handled successfully and 1 only
\* when handling failed: a run in which the input is well formed, the working
\* directory is readable and every OS command succeeds exits 0.
CleanRun ==
    /\ arg.stdin.kind \in {"tty", "blank", "json"}
    /\ arg.stdin.value.type \in {"none", "dict"}
    /\ cwd /= None
    /\ \A i \in 1..Len(calls) : ExitedZero(calls[i].res)
    /\ Idx(PrimaryQueryFailed) = {}
C2_ExitZeroUnlessHandlingFailed ==
    (op = "main" /\ CleanRun) => exit_code = 0

\* C3: send_notification_and_focus issues a notification only if its focus
\* check found the current name different from the originating name, and
\* otherwise returns False having issued no notification and no activation.
C3_NotifyOnlyAfterFocusChange ==
    op = "send_notification_and_focus" =>
        /\ Idx(IsNotification) /= {} => FocusCheckFoundChange
        /\ ~FocusCheckFoundChange =>
              /\ ret.kind = "return"
              /\ ret.val = FALSE
              /\ Idx(IsNotification) = {}
              /\ Idx(IsActivation) = {}

\* C4: send_notification returns True iff some notification command exited
\* successfully; the built-in notification is issued whenever the external
\* tool is absent, fails, times out or raises, and its success gives True.
C4_SendNotificationIffDelivered ==
    op = "send_notification" =>
        /\ ret.kind = "return"
        /\ ret.val = (\E i \in Idx(IsNotification) : ExitedZero(calls[i].res))
        /\ (\A i \in 1..Len(calls) :
                 calls[i].tool = "terminal-notifier" => ~ExitedZero(calls[i].res))
              => Idx(IsBasicNotification) /= {}
        /\ (\E i \in Idx(IsBasicNotification) : ExitedZero(calls[i].res)) => ret.val = TRUE

\* C4 witness: terminal-notifier is present but times out, the built-in
\* notification succeeds and the result is True.
C4_Witness ==
    /\ op = "send_notification"
    /\ Len(calls) = 3
    /\ calls[2].tool = "terminal-notifier"
    /\ calls[2].res = TimeoutExpired
    /\ ExitedZero(calls[3].res)
    /\ ret.val = TRUE

\* C5: activate_app_by_bundle_id with an empty (or absent) id or "unknown"
\* returns False with no OS call; otherwise it issues exactly one activation
\* command and returns True exactly when that command exits 0.
C5_ActivateByBundleId ==
    op = "activate_app_by_bundle_id" =>
        IF arg.bundle_id \in {None, s_empty, s_unknown}
        THEN calls = <<>> /\ ret.kind = "return" /\ ret.val = FALSE
        ELSE /\ Len(calls) = 1
             /\ calls[1].tool = "osascript"
             /\ calls[1].script = "tell application id to activate"
             /\ calls[1].args = <<arg.bundle_id>>
             /\ ret.kind = "return"
             /\ ret.val = ExitedZero(calls[1].res)

\* C5 witness: the sentinel "unknown" is refused without any OS call.
C5_Witness ==
    /\ op = "activate_app_by_bundle_id"
    /\ arg.bundle_id = s_unknown
    /\ calls = <<>>
    /\ ret.val = FALSE

ValidName == arg.app_name \notin {None, s_empty, s_unknown}
AttemptsAre(names) ==
    /\ Len(calls) = Len(names)
    /\ \A i \in 1..Len(calls) :
          /\ calls[i].script = "tell application to activate"
          /\ calls[i].args = <<names[i]>>
\* the variations are attempted in order, each once, until one succeeds
VariationsRun ==
    \E k \in 0..Len(NameVariations(arg.app_name)) :
        /\ AttemptsAre(<<arg.app_name>> \o SubSeq(NameVariations(arg.app_name), 1, k))
        /\ \A i \in 2..k : ~ExitedZero(calls[i].res)
        /\ k < Len(NameVariations(arg.app_name)) => (k >= 1 /\ ExitedZero(calls[k + 1].res))
AnyAttemptExitedZero == \E i \in 1..Len(calls) : ExitedZero(calls[i].res)

\* C6 (as stated): whenever the exact-name attempt fails, by non-zero exit or
\* by timeout, every variation is attempted in order until one succeeds, and
\* the result is True exactly when some attempt exited successfully.
C6_VariationsAfterAnyFailure ==
    (op = "activate_app_by_name" /\ ValidName) =>
        /\ ret.kind = "return"
        /\ ret.val = AnyAttemptExitedZero
        /\ ~ExitedZero(calls[1].res) => VariationsRun

\* C6 (amended): the variations are attempted, in order, each once, until one
\* succeeds, exactly when the exact-name attempt exits with a non-zero status;
\* when the exact-name attempt times out or cannot be run, no variation is
\* attempted and the result is False.  The result is True exactly when the
\* exact-name attempt or a variation attempt exited successfully.
C6_VariationsAfterNonZeroExit ==
    (op = "activate_app_by_name" /\ ValidName) =>
        /\ ret.kind = "return"
        /\ ret.val = AnyAttemptExitedZero
        /\ ExitedZero(calls[1].res) => AttemptsAre(<<arg.app_name>>)
        /\ (calls[1].res.kind = "exit" /\ calls[1].res.rc /= 0) => VariationsRun
        /\ Raised(calls[1].res) => (AttemptsAre(<<arg.app_name>>) /\ ret.val = FALSE)

\* C6 witness: the exact name exits non-zero, the first variation raises, the
\* second is still attempted and succeeds.
C6_Witness ==
    /\ op = "activate_app_by_name"
    /\ Len(calls) = 3
    /\ calls[1].res = Exit(1, <<>>)
    /\ Raised(calls[2].res)
    /\ ExitedZero(calls[3].res)
    /\ ret.val = TRUE

\* C7: every candidate attempted after the exact name is obtained from the
\* input name by a generic transform (here: by deleting characters of it).
C7_VariationsDerivedFromInput ==
    op = "activate_app_by_name" =>
        \A i \in 2..Len(calls) : IsSubseq(calls[i].args[1], arg.app_name)

\* C8: get_current_app_info never raises; a failed primary query degrades the
\* snapshot to a fallback one, a failed title query to one without a title.
C8_ReaderNeverRaises ==
    op = "get_current_app_info" =>
        /\ ret.kind = "return"
        /\ Idx(PrimaryQueryFailed) /= {} =>
              /\ DetectionMethod(ret.val) \in {"fallback", "ultimate_fallback"}
              /\ DOMAIN ret.val = {"name", "bundle_id", "pid", "method"}
        /\ (\E i \in Idx(IsTitleQuery) : ~ExitedZero(calls[i].res)) =>
              "window_title" \notin DOMAIN ret.val

\* C8 witness: lsappinfo is missing and the fallback query times out, and a
\* snapshot is returned all the same.
C8_Witness ==
    /\ op = "get_current_app_info"
    /\ Len(calls) = 2
    /\ calls[1].res = OSError
    /\ calls[2].res = TimeoutExpired
    /\ ret.kind = "return"

\* C9: when a primary query fails and the fallback name query fails too, the
\* result is exactly the ultimate-fallback snapshot.
C9_UltimateFallback ==
    ( /\ op = "get_current_app_info"
      /\ Idx(PrimaryQueryFailed) /= {}
      /\ \E i \in Idx(IsFallbackQuery) : ~ExitedZero(calls[i].res) ) =>
        /\ ret.kind = "return"
        /\ DOMAIN ret.val = {"name", "bundle_id", "pid", "method"}
        /\ ret.val.name = s_unknown
        /\ ret.val.bundle_id = s_unknown
        /\ ret.val.pid = 0
        /\ ret.val.method = "ultimate_fallback"

\* C9 witness: the front query answers, the info query exits non-zero, the
\* fallback query exits non-zero.
C9_Witness ==
    /\ op = "get_current_app_info"
    /\ Len(calls) = 3
    /\ FrontUsable(calls[1].res)
    /\ calls[2].res = Exit(1, <<>>)
    /\ IsFallbackQuery(calls[3]) /\ calls[3].res = Exit(1, <<>>)
    /\ ret.val.method = "ultimate_fallback"

PrimarySucceeded ==
    /\ Len(calls) >= 2
    /\ calls[1].tool = "lsappinfo" /\ calls[1].script = "front" /\ FrontUsable(calls[1].res)
    /\ calls[2].tool = "lsappinfo" /\ ExitedZero(calls[2].res)
FallbackSucceeded == \E i \in Idx(IsFallbackQuery) : ExitedZero(calls[i].res)

C11_SnapshotFieldsPresent ==
    op = "get_current_app_info" =>
        /\ ret.kind = "return"
        /\ {"name", "bundle_id", "pid"} \subseteq DOMAIN ret.val
        /\ ret.val.name /= None
        /\ ret.val.bundle_id /= None
        /\ ret.val.pid \in Int

\* the run of the snapshot reader with the outcome of one command replaced
Rerun(slot, outcome) ==
    LET e == [arg.env EXCEPT ![slot] = outcome]
    IN  get_current_app_info(e.rf, e.ri, e.rt, e.rfb)
NonZeroExits == {Exit(rc, o) : rc \in {1, 2}, o \in FrontOutputs \cup TitleOutputs}

\* C12: a run of get_current_app_info in which one command timed out returns
\* the snapshot that the run returns in which that command exited non-zero
\* instead, all other outcomes equal.
C12_TimeoutSameAsNonZeroExit ==
    op = "get_current_app_info" =>
        \A slot \in {"rf", "ri", "rt", "rfb"} :
            arg.env[slot] = TimeoutExpired =>
                \A r \in NonZeroExits : Rerun(slot, r).res = ret

\* C12 witness: the info query timed out and the fallback name query
\* answered, and the snapshot names the fallback's application.
C12_Witness ==
    /\ op = "get_current_app_info"
    /\ arg.env.ri = TimeoutExpired
    /\ ExitedZero(arg.env.rfb)
    /\ ret.kind = "return"
    /\ ret.val.method = "fallback"
    /\ ret.val.name = s_Code

IsFocusCall(c) == c.tool = "hs" /\ c.script = "focus script"
\* the bridge ran the focus script to its end
FocusScriptRan == \E i \in Idx(IsFocusCall) : ExitedZero(calls[i].res)
\* the bridge was not found, or a command of the run did not exit zero
BridgeFailed == hs_cli_path = None \/ \E i \in 1..Len(calls) : ~ExitedZero(calls[i].res)

\* C13: when the bridge executable cannot be located, or a query fails or
\* exits non-zero, get_app_windows_info returns an empty current-space list
\* and an empty cross-space list, and does not raise.
C13_FailureGivesTwoEmptyLists ==
    (op = "get_app_windows_info" /\ BridgeFailed) =>
        /\ ret.kind = "return"
        /\ {"current_windows", "cross_space_windows"} \subseteq DOMAIN ret.val
        /\ ret.val.current_windows = <<>>
        /\ ret.val.cross_space_windows = <<>>

\* C14: without a title filter, the focus script calls focus() on the first
\* window of the cross-space list and on no other, whatever the titles are.
C14_NoFilterFocusesFirst ==
    ( /\ op = "focus_app_window"
      /\ Falsy(arg.window_title)
      /\ FocusScriptRan
      /\ arg.bridge.other /= <<>> ) => focused = <<1>>

\* C14 witness: no filter, two cross-space windows, the first is focused.
C14_Witness ==
    /\ op = "focus_app_window"
    /\ arg.window_title = None
    /\ Len(arg.bridge.other) = 2
    /\ FocusScriptRan
    /\ focused = <<1>>
    /\ ret.val = TRUE

\* the cross-space windows whose title contains the filter, letter case aside
TitleContains(win, window_title) ==
    Contains(LowerStr(TitleOr(win, s_empty)), LowerStr(window_title))
Containing == {i \in 1..Len(arg.bridge.other) : TitleContains(arg.bridge.other[i], arg.window_title)}

\* C15: with a title filter, the focus script calls focus() on the first
\* window of the cross-space list whose title contains the filter as a
\* case-insensitive substring.
C15_FilterFocusesFirstContaining ==
    ( /\ op = "focus_app_window"
      /\ ~Falsy(arg.window_title)
      /\ FocusScriptRan
      /\ Containing /= {} ) =>
        focused = <<CHOOSE i \in Containing : \A j \in Containing : i <= j>>

\* C16: focus_app_window never raises; it returns True exactly when the
\* bridge exited zero and printed the success marker, which the script
\* prints exactly when focus() on the chosen window answered true; when the
\* bridge is unavailable no focus command is issued and the result is False.
C16_TrueIffFocusSucceeded ==
    op = "focus_app_window" =>
        /\ ret.kind = "return"
        /\ ret.val = TRUE <=>
              \E i \in Idx(IsFocusCall) :
                  ExitedZero(calls[i].res) /\ Contains(calls[i].res.out, s_SUCCESS)
        /\ ret.val = TRUE <=> (FocusScriptRan /\ focused /= <<>> /\ arg.bridge.focus_ok)
        /\ (hs_cli_path = None \/ ~ExitedZero(calls[1].res)) =>
              (Idx(IsFocusCall) = {} /\ focused = <<>> /\ ret.val = FALSE)

\* C16 witness: the bridge is available, the script runs and focus() answers
\* false, and the result is False.
C16_Witness ==
    /\ op = "focus_app_window"
    /\ FocusScriptRan
    /\ focused = <<1>>
    /\ ~arg.bridge.focus_ok
    /\ ret.val = FALSE

\* the payload is absent or a mapping (or a list naming none of the keys)
PayloadHasKey(key) == HookTruthy(arg.hook_data) /\ HookIn(key, arg.hook_data)
TranscriptParts == PathParts(arg.hook_data.d["transcript_path"])
\* positions, past the first, of the ".claude" parts of the transcript path
ClaudePositions ==
    IF PayloadHasKey("transcript_path")
    THEN {i \in 2..Len(TranscriptParts) : TranscriptParts[i] = s_dot_claude}
    ELSE {}
CwdName == IF cwd = None THEN None ELSE PathName(cwd)

\* C17: the project name is the payload's project value if a project key is
\* present; otherwise, if the transcript_path has a ".claude" segment that
\* is not in first position, the segment immediately preceding ".claude";
\* otherwise the last segment of the working directory.
C17_ProjectNamePriority ==
    (op = "extract_project_name" /\ arg.hook_data.type /= "number") =>
        /\ ret.kind = "return"
        /\ IF PayloadHasKey("project") THEN ret.val = arg.hook_data.d["project"]
           ELSE IF ClaudePositions /= {}
           THEN \E i \in ClaudePositions : ret.val = TranscriptParts[i - 1]
           ELSE ret.val = CwdName

\* position of the first ".claude" part of the transcript path, 0 if none
FirstClaude ==
    IF PayloadHasKey("transcript_path") THEN IndexFrom(TranscriptParts, s_dot_claude, 1) ELSE 0

\* C17 as amended: the project value if a project key is present; otherwise,
\* if the first ".claude" part of the transcript_path is not in first
\* position, the part immediately preceding it; otherwise the last segment
\* of the working directory.
C17_ProjectNameFirstClaude ==
    (op = "extract_project_name" /\ arg.hook_data.type /= "number") =>
        /\ ret.kind = "return"
        /\ IF PayloadHasKey("project") THEN ret.val = arg.hook_data.d["project"]
           ELSE IF FirstClaude > 1 THEN ret.val = TranscriptParts[FirstClaude - 1]
           ELSE ret.val = CwdName

\* C17 witness: ".claude" is the first part of the transcript path and
\* occurs again later; the name comes from the working directory.
C17_Witness ==
    /\ op = "extract_project_name"
    /\ FirstClaude = 1
    /\ ClaudePositions /= {}
    /\ cwd /= None
    /\ ret.val = PathName(cwd)
    /\ ret.val /= TranscriptParts[2]

\* standard input is absent, empty, not valid JSON, or JSON that is not a mapping
NoUsablePayload ==
    \/ arg.stdin.kind \in {"tty", "blank", "malformed"}
    \/ arg.stdin.kind = "json" /\ arg.stdin.value.type \in {"number", "list"}
\* the same run of main with no payload on standard input
RunWithoutPayload == main(StdinTty, arg.argv1, cwd, hs_cli_path, arg.env, arg.ne)

\* C18: a run of main whose standard input is absent, empty or malformed
\* issues the same commands and ends with the same exit status as the same
\* run without payload; the input itself causes no failure.
C18_MalformedInputLikeNoInput ==
    (op = "main" /\ NoUsablePayload) =>
        /\ calls = RunWithoutPayload.calls
        /\ exit_code = RunWithoutPayload.res.val

KernelOperations ==
    {"should_notify", "send_notification_and_focus", "activate_app_by_bundle_id",
     "activate_app_by_name", "send_notification", "focus_app_window"}

\* C19: no kernel operation below the entry point ends by raising: each
\* returns a value whatever the outcomes of the commands it issued.
C19_KernelNeverRaises ==
    op \in KernelOperations => ret.kind = "return"

\* C20: every command an operation issues is run with an explicit timeout.
C20_EveryCallHasTimeout ==
    \A i \in 1..Len(calls) : calls[i].timeout > 0

\* C21: should_notify on a current snapshot whose name equals the
\* originating name, both undetermined included, returns False.
NameOfOriginating ==
    IF originating_app_info = NoAttr THEN s_unknown ELSE OriginatingName

C21_SameNameGivesFalse ==
    (op = "should_notify" /\ CurrentName = NameOfOriginating) =>
        (ret.kind = "return" /\ ret.val = FALSE)

\* the context holds what construction derives from the working directory
ContextAsConstructed ==
    /\ DOMAIN originating_context
          = {"project_name", "expected_window", "expected_app", "expected_bundle_id"}
    /\ IF cwd = None
       THEN \A f \in DOMAIN originating_context : originating_context[f] = s_unknown
       ELSE /\ originating_context.project_name = PathName(cwd)
            /\ originating_context.expected_window = s_window_prefix \o PathName(cwd)

\* C22: in every state the originating context's project_name is the last
\* segment of the working directory and its expected window is
\* "Claude Code (em dash) " followed by it (all fields "unknown" when the
\* directory cannot be read), and no operation changes the context.
C22_ContextFixedAtConstruction ==
    []ContextAsConstructed /\ [][originating_context' = originating_context]_vars

\* C22 witness: main has run in directory /p/a and the context names project a.
C22_Witness ==
    /\ op = "main"
    /\ cwd = <<"/", "p", "/", "a">>
    /\ originating_context.project_name = <<"a">>

\* C23: get_focused_window_info of window_detective never raises, and the
\* record it returns has an error field or at least one of pid and name.
C23_RecordHasErrorOrPidOrName ==
    op = "get_focused_window_info" =>
        /\ ret.kind = "return"
        /\ \/ "error" \in DOMAIN ret.val
           \/ "pid" \in DOMAIN ret.val
           \/ "name" \in DOMAIN ret.val

Delivered == {i \in Idx(IsNotification) : ExitedZero(calls[i].res)}
ExternalAbsentOrFailed(c) ==
    /\ c.tool \in {"which", "terminal-notifier"}
    /\ ~ExitedZero(c.res)

ExtractionReturns ==
    /\ arg.stdin.kind \in {"tty", "blank", "json"}
    /\ arg.stdin.value.type \in {"none", "dict"}
    /\ extract_project_name(read_hook_data(arg.stdin), cwd).kind = "return"

\* C25: a handler returns False only when an exception escaped: a run of main
\* whose project-name extraction succeeds and in which no notification is
\* delivered (suppressed, or every mechanism failed) exits 0.
C25_UndeliveredRunExitsZero ==
    (op = "main" /\ ExtractionReturns /\ Delivered = {}) => exit_code = 0

\* C26: with a title filter that no cross-space window title contains, the
\* focus script calls focus() on the first window of the list; with a
\* non-empty list some window is always asked to focus and the script never
\* prints "ERROR:No matching window found".
C26_NoMatchFallsBackToFirst ==
    ( /\ op = "focus_app_window"
      /\ FocusScriptRan
      /\ arg.bridge.other /= <<>> ) =>
        /\ Len(focused) = 1
        /\ \A i \in Idx(IsFocusCall) :
              ~Contains(calls[i].res.out, <<"N", "o", " ", "m", "a", "t", "c", "h", "i", "n", "g">>)
        /\ (~Falsy(arg.window_title) /\ Containing = {}) => focused = <<1>>

IsContextScript(c) == c.tool = "hs" /\ c.script = "context script"
\* the AppleScript query exited zero and printed a non-empty title
AppleScriptYieldedTitle ==
    /\ ExitedZero(arg.env.ra)
    /\ Len(AppleScriptParts(arg.env.ra)) >= 2
    /\ AppleScriptParts(arg.env.ra)[2] /= s_empty
\* the bridge exited zero and printed a SUCCESS line with a non-empty title
HammerspoonYieldedTitle ==
    \E i \in Idx(IsContextScript) :
        /\ ExitedZero(calls[i].res)
        /\ StartsWith(Strip(calls[i].res.out), s_SUCCESS)
        /\ Len(Split(Strip(calls[i].res.out), "|")) >= 3
        /\ Split(Strip(calls[i].res.out), "|")[2] /= s_empty

\* C27: when the AppleScript query does not yield a window title the
\* Hammerspoon query is attempted (where the bridge is installed); when
\* neither yields a title the result is the all-"unknown" context tagged
\* "failed"; a result tagged "applescript" or "hammerspoon" carries a title
\* that tool printed.
C27_MethodTagNamesProducer ==
    op = "get_current_window_context" =>
        /\ (~AppleScriptYieldedTitle /\ hs_cli_path /= None) => Idx(IsContextScript) /= {}
        /\ (~AppleScriptYieldedTitle /\ ~HammerspoonYieldedTitle) =>
              ret.val = Tagged(UnknownContext, "failed")
        /\ ret.val.detection_method = "applescript" => AppleScriptYieldedTitle
        /\ ret.val.detection_method = "hammerspoon" => HammerspoonYieldedTitle

\* C28: detect_window_change (either variant) returns a record only when a
\* query succeeded and saw a pid (or pid and window number) different from
\* the initial one: the record returned is never an error record, it has a
\* pid, and its pid or window number differs from the initial snapshot's.
C28_ChangeOnlyOnDifferentApp ==
    ( /\ op \in {"detect_window_change", "reliable_detect_window_change"}
      /\ ret.val /= Nothing ) =>
        /\ ret.kind = "return"
        /\ "error" \notin DOMAIN ret.val[1]
        /\ "pid" \in DOMAIN ret.val[1]
        /\ \/ PidDiffers(ret.val[1], arg.initial_info)
           \/ /\ op = "reliable_detect_window_change"
              /\ create_window_signature(ret.val[1])
                    /= create_window_signature(arg.initial_info)

\* the snapshot a run of the detector with outcomes e takes
SnapshotOf(e) == get_current_app_info(e.rf, e.ri, e.rt, e.rfb).res.val

\* C29: the cache is empty at first; cache_current_app leaves in it the
\* snapshot that call took; no other operation (get_current_app_info,
\* get_app_for_hammerspoon, get_bundle_id_for_fallback, get_cached_app_info)
\* changes it, however many run in between; get_cached_app_info returns
\* what the cache holds (None while it is empty).
C29_CacheHoldsLastCachedSnapshot ==
    /\ current_app_info = Nothing
    /\ [][ /\ op' = "cache_current_app" => current_app_info' = Some(SnapshotOf(arg'.env))
           /\ op' /= "cache_current_app" => current_app_info' = current_app_info
           /\ op' = "get_cached_app_info" =>
                 (returned'[2] = "return" /\ returned'[3] = current_app_info) ]_vars

\* C29 witness: get_cached_app_info returns a cached snapshot named Code.
C29_Witness ==
    /\ op = "get_cached_app_info"
    /\ current_app_info /= Nothing
    /\ ret.val = current_app_info
    /\ DictGet(ret.val[1], "name", s_unknown) = s_Code

IsWindowsInfoCall(c) == c.tool = "hs" /\ c.script = "windows info script"
\* the bridge ran the window-listing script and printed nothing else
WindowsInfoScriptRan ==
    /\ arg.bridge.proc = Exit(0, <<>>)
    /\ \E i \in Idx(IsWindowsInfoCall) : ExitedZero(calls[i].res)
\* the record a printed window line stands for
Printed(wins, i) ==
    [index |-> i, title |-> TitleOr(wins[i], s_NO_TITLE),
     space |-> IF wins[i].space = None THEN s_UNKNOWN ELSE wins[i].space]
RoundTrip(wins, records) ==
    /\ Len(records) = Len(wins)
    /\ \A i \in 1..Len(wins) : records[i] = Printed(wins, i)

\* C30: when the window-listing script has run, each window it printed comes
\* back from _parse_windows_info as a record with the same index, title and
\* space, titles containing ":" included, and each reported total equals the
\* number of records parsed.
C30_WindowListRoundTrip ==
    (op = "get_app_windows_info" /\ WindowsInfoScriptRan) =>
        /\ ret.kind = "return"
        /\ "error" \notin DOMAIN ret.val
        /\ ret.val.total_current = Len(ret.val.current_windows)
        /\ ret.val.total_cross_space = Len(ret.val.cross_space_windows)
        /\ RoundTrip(arg.bridge.current, ret.val.current_windows)
        /\ RoundTrip(arg.bridge.other, ret.val.cross_space_windows)

====
